---- MODULE Spec2Model ----
(***************************************************************************)
(* Model of the neighborhood enrichment pipeline of ZyoniaRAG.             *)
(*                                                                         *)
(*   Spec       SearxNGEngine: construction (instance probing) followed by *)
(*              search calls with failover over the instances.             *)
(*   CoordSpec  search_neighborhood: query analysis followed by the        *)
(*              sequential category searches.                              *)
(*   DdgSpec    search_single_category calls on one DuckDuckGoEngine: rate *)
(*              limiting, the backend request and the result pipeline.     *)
(*                                                                         *)
(* The pure functions of the pipeline are checked under specifications     *)
(* that draw the arguments in the initial state and apply the function:    *)
(* FilterSpec, EnhanceSpec, ConfidenceSpec, MetricSpec, DetectSpec,        *)
(* FactSpec, RankSpec, ExtractSpec.                                        *)
(*                                                                         *)
(*   MasterSpec a result file is written, then MasterEnrichment builds the *)
(*              master file of a neighborhood from the directory.          *)
(***************************************************************************)
EXTENDS Integers, Sequences, FiniteSets, TLC

(***************************************************************************)
(* Bounds of the model.                                                    *)
(***************************************************************************)
\* number of configured SearxNG instances (the code lists 15)
NumInstances == 3
\* number of search requests one engine sends over all its search calls; a
\* call starts only when it can try every instance within this budget
MaxRequests == 4
\* response times observed by a probe or a search request are 1..MaxRT
MaxRT == 2
\* number of items in a response payload is 0..MaxRaw
MaxRaw == 2

(***************************************************************************)
(* Program constants.                                                      *)
(***************************************************************************)
\* self.instances[:5]: the number of instances probed at construction, scaled
\* with the instance list (the code probes the first 5 of its 15)
ProbeCount == 2
\* time.sleep(2) after HTTP 429
RateLimitCooldown == 2
\* time.sleep(1) between instance attempts
InstanceDelay == 1
\* time.sleep(6) between categories
CategoryDelay == 6
\* SEARCH_SETTINGS["delay_between_searches"], in time units of the model (the
\* code configures 5.0 seconds)
MinDelay == 2
\* SEARCH_SETTINGS["max_results_per_category"], scaled with the payloads (the
\* code configures 5)
MaxPerCategory == 2
\* a local that has not been assigned yet
Unbound == -1

None == 0
Inf == MaxRT + 1
NoError == "None"
Instances == 1 .. NumInstances
\* relevance of one parsed result with respect to the neighborhood
RawScores == {0, 1, 3}
Payloads == UNION { [1 .. n -> RawScores] : n \in 0 .. MaxRaw }
\* the (neighborhood, max_results) arguments of the search calls; neighborhood
\* is TRUE for a non-empty string
CallArgs == { [neighborhood |-> TRUE, max_results |-> 1],
              [neighborhood |-> TRUE, max_results |-> 2],
              [neighborhood |-> FALSE, max_results |-> 1] }

VARIABLES
  \* ---- SearxNGEngine ----
  pc,                 \* position of the engine's caller
  failures,           \* instance_stats[i]['failures']
  last_success,       \* instance_stats[i]['last_success'], None = 0
  avg_response_time,  \* instance_stats[i]['avg_response_time']
  primary_instance,   \* self.primary_instance
  now,                \* time.time()
  test_instances,     \* the shuffled instances still to probe
  best_instance,      \* local of _initialize_primary_instance
  best_response_time, \* local of _initialize_primary_instance
  probed,             \* per instance: "none", "ok" or "failed" probe
  probe_time,         \* per instance: response time of its successful probe
  available_instances,\* local of search: the trial order
  idx,                \* local of search: 1-based position in the trial order
  last_error,         \* local of search
  neighborhood,       \* argument of search: TRUE when non-empty
  max_results,        \* argument of search
  results,            \* what the last search call returned
  requests,           \* number of search requests sent so far
  stats0,             \* instance stats when the current call started
  trace,              \* attempts and sleeps of the current call
  \* ---- search_neighborhood ----
  cpc,                \* position in search_neighborhood
  analysis,           \* the dict returned by analyze_query
  all_categories,     \* [priority_category] + background_categories
  ci,                 \* loop counter i of the category loop
  all_results,        \* the dict all_results, as its items in insertion order
  response,           \* what search_neighborhood returned
  cnow,               \* time.time() of the run
  clog,               \* calls, returns and sleeps of the run
  \* ---- search_single_category on a DuckDuckGoEngine ----
  dpc,                \* position in search_single_category / search
  last_search_time,   \* self.last_search_time
  dnow,               \* time.time()
  dcategory,          \* argument category of search_single_category
  dneighborhood,      \* argument neighborhood: TRUE when non-empty
  start_time,         \* local of search: "unbound" until assigned
  dsources,           \* local of search: results['sources']
  search_result,      \* how the last DuckDuckGoEngine.search call ended
  single_result,      \* how the last search_single_category call ended
  request_times,      \* time.time() when each backend request was issued
  slept,              \* the time the last _apply_rate_limiting slept
  \* ---- a pure function under test ----
  fpc,                \* "idle", the name of the function to apply, or "done"
  fargs,              \* its arguments
  ret                 \* what it returned

searxVars == <<pc, failures, last_success, avg_response_time, primary_instance,
               now, test_instances, best_instance, best_response_time, probed,
               probe_time, available_instances, idx, last_error, neighborhood,
               max_results, results, requests, stats0, trace>>

coordVars == <<cpc, analysis, all_categories, ci, all_results, response,
               cnow, clog>>

ddgVars == <<dpc, last_search_time, dnow, dcategory, dneighborhood, start_time,
             dsources, search_result, single_result, request_times, slept>>

fnVars == <<fpc, fargs, ret>>

vars == <<searxVars, coordVars, ddgVars, fnVars>>

\* the state outside the SearxNGEngine object / outside search_neighborhood /
\* outside the DuckDuckGoEngine and its caller / outside the function under test
outsideSearx == <<coordVars, ddgVars, fnVars>>
outsideCoord == <<searxVars, ddgVars, fnVars>>
outsideDdg == <<searxVars, coordVars, fnVars>>
outsideFn == <<searxVars, coordVars, ddgVars>>

(***************************************************************************)
(* Helpers                                                                 *)
(***************************************************************************)
Range(s) == { s[i] : i \in DOMAIN s }

Perms(S) == { s \in [1 .. Cardinality(S) -> S] : Range(s) = S }

max(a, b) == IF a >= b THEN a ELSE b

NoResults == [kind |-> "none", sources |-> <<>>, instance_used |-> None,
              total_results |-> 0, error |-> NoError]

AttemptEv(i, o) == [ev |-> "attempt", inst |-> i, out |-> o, d |-> 0]
SleepEv(d) == [ev |-> "sleep", inst |-> None, out |-> "-", d |-> d]

(***************************************************************************)
(* SearxNGEngine._mark_instance_failure / _mark_instance_success           *)
(***************************************************************************)
\* variant: the failure is not recorded
mark_instance_failure_dropped(f, instance) == f

mark_instance_failure(f, instance) ==
  [f EXCEPT ![instance] = f[instance] + 1]

\* variant: the decrement has no floor
mark_instance_success_nofloor(f, instance) ==
  [f EXCEPT ![instance] = f[instance] - 1]

mark_instance_success(f, instance) ==
  [f EXCEPT ![instance] = max(0, f[instance] - 1)]

(***************************************************************************)
(* SearxNGEngine._get_available_instances                                  *)
(* The sort key is (failures, -(last_success or 0)); list.sort is stable,  *)
(* so instances with equal keys keep their configured order.               *)
(***************************************************************************)
\* variant: the last-success tie-break is ascending (sign of the key lost)
KeyBefore_oldest_first(a, b, f, ls) ==
  \/ f[a] < f[b]
  \/ f[a] = f[b] /\ ls[a] < ls[b]
  \/ f[a] = f[b] /\ ls[a] = ls[b] /\ a < b

KeyBefore(a, b, f, ls) ==
  \/ f[a] < f[b]
  \/ f[a] = f[b] /\ (0 - ls[a]) < (0 - ls[b])
  \/ f[a] = f[b] /\ ls[a] = ls[b] /\ a < b

RECURSIVE SortInstances(_, _, _)
SortInstances(S, f, ls) ==
  IF S = {} THEN <<>>
  ELSE LET m == CHOOSE a \in S : \A b \in S \ {a} : KeyBefore(a, b, f, ls)
       IN  <<m>> \o SortInstances(S \ {m}, f, ls)

\* variant: every instance, the primary included, takes its place in the
\* order of failures and last success
get_available_instances_by_stats(primary, f, ls) ==
  SortInstances(Instances, f, ls)

get_available_instances(primary, f, ls) ==
  (IF primary # None THEN <<primary>> ELSE <<>>)
    \o SortInstances(Instances \ {primary}, f, ls)

(***************************************************************************)
(* SearxNGEngine._parse_searxng_results, _filter_relevant_results and the  *)
(* truncation in search.  A parsed result is represented by its relevance  *)
(* score; the filter keeps the positive ones in descending score order     *)
(* (stable), and is skipped for an empty neighborhood.                     *)
(***************************************************************************)
Take(s, n) == SubSeq(s, 1, IF n < Len(s) THEN n ELSE Len(s))

parse_searxng_results(data, n) == Take(data, n)

RECURSIVE SelectPositive(_)
SelectPositive(s) ==
  IF s = <<>> THEN <<>>
  ELSE (IF Head(s) > 0 THEN <<Head(s)>> ELSE <<>>) \o SelectPositive(Tail(s))

RECURSIVE SortDescending(_)
SortDescending(s) ==
  IF s = <<>> THEN <<>>
  ELSE LET k == CHOOSE i \in DOMAIN s :
                  /\ \A j \in DOMAIN s : s[j] <= s[i]
                  /\ \A j \in 1 .. (i - 1) : s[j] < s[i]
       IN  <<s[k]>> \o SortDescending(SubSeq(s, 1, k - 1) \o SubSeq(s, k + 1, Len(s)))

filter_relevant_results(sources, nbhd) ==
  IF ~nbhd THEN sources ELSE SortDescending(SelectPositive(sources))

PostFilter(data, nbhd, maxres) ==
  Take(filter_relevant_results(parse_searxng_results(data, maxres * 2), nbhd), maxres)

(***************************************************************************)
(* Initial state: the engine object at the call of                         *)
(* _initialize_primary_instance in __init__.                               *)
(***************************************************************************)
SearxInit ==
  /\ pc = "init"
  /\ failures = [i \in Instances |-> 0]
  /\ last_success = [i \in Instances |-> None]
  /\ avg_response_time = [i \in Instances |-> 0]
  /\ primary_instance = None
  /\ now = 1
  /\ test_instances = <<>>
  /\ best_instance = None
  /\ best_response_time = Inf
  /\ probed = [i \in Instances |-> "none"]
  /\ probe_time = [i \in Instances |-> 0]
  /\ available_instances = <<>>
  /\ idx = 0
  /\ last_error = NoError
  /\ neighborhood = FALSE
  /\ max_results = 1
  /\ results = NoResults
  /\ requests = 0
  /\ stats0 = [failures |-> failures, last_success |-> last_success,
               avg_response_time |-> avg_response_time]
  /\ trace = <<>>

(***************************************************************************)
(* Initial state of search_neighborhood: at its entry.                     *)
(***************************************************************************)
NoAnalysis == [priority_category |-> "", detected_categories |-> <<>>,
               background_categories |-> <<>>]

CoordInit ==
  /\ cpc = "start"
  /\ analysis = NoAnalysis
  /\ all_categories = <<>>
  /\ ci = 0
  /\ all_results = <<>>
  /\ response = "none"
  /\ cnow = 0
  /\ clog = <<>>

\* a DuckDuckGoEngine after __init__, outside any call
NoEnvelope == [kind |-> "none", sources |-> <<>>, total_results |-> 0,
               error |-> FALSE]

NoSingle == [category |-> "", result |-> NoEnvelope]

DdgInit ==
  /\ dpc = "idle"
  /\ last_search_time = 0
  /\ dnow = MinDelay
  /\ dcategory = ""
  /\ dneighborhood = ""
  /\ start_time = Unbound
  /\ dsources = <<>>
  /\ search_result = NoEnvelope
  /\ single_result = NoSingle
  /\ request_times = <<>>
  /\ slept = 0

\* no function under test
FnIdle ==
  /\ fpc = "idle"
  /\ fargs = <<>>
  /\ ret = <<>>

Init == SearxInit /\ CoordInit /\ DdgInit /\ FnIdle

searchLocals == <<available_instances, idx, last_error, neighborhood,
                  max_results, results, requests, stats0, trace, outsideSearx>>

(***************************************************************************)
(* SearxNGEngine._initialize_primary_instance                              *)
(***************************************************************************)
\* variant: the comparison keeps the slowest responder
is_faster_reversed(response_time, best) == best = Inf \/ response_time > best

\* "if response_time < best_response_time"
is_faster(response_time, best) == response_time < best

\* self.instances[:5]
ProbedInstances == { i \in Instances : i <= ProbeCount }

\* test_instances = self.instances[:5]; random.shuffle(test_instances)
ShuffleTestInstances ==
  /\ pc = "init"
  /\ \E order \in Perms(ProbedInstances) : test_instances' = order
  /\ pc' = "probing"
  /\ UNCHANGED <<failures, last_success, avg_response_time, primary_instance,
                 now, best_instance, best_response_time, probed, probe_time>>
  /\ UNCHANGED searchLocals

\* the status probe answers 200 after response_time
ProbeOk ==
  /\ pc = "probing" /\ test_instances # <<>>
  /\ LET instance == Head(test_instances) IN
     \E response_time \in 1 .. MaxRT :
       /\ avg_response_time' = [avg_response_time EXCEPT ![instance] = response_time]
       /\ last_success' = [last_success EXCEPT ![instance] = now]
       /\ IF is_faster(response_time, best_response_time)
            THEN best_response_time' = response_time /\ best_instance' = instance
            ELSE UNCHANGED <<best_response_time, best_instance>>
       /\ probed' = [probed EXCEPT ![instance] = "ok"]
       /\ probe_time' = [probe_time EXCEPT ![instance] = response_time]
  /\ now' = now + 1
  /\ test_instances' = Tail(test_instances)
  /\ UNCHANGED <<pc, failures, primary_instance>>
  /\ UNCHANGED searchLocals

\* the status probe answers with a status other than 200
ProbeBadStatus ==
  /\ pc = "probing" /\ test_instances # <<>>
  /\ LET instance == Head(test_instances) IN
       /\ failures' = [failures EXCEPT ![instance] = failures[instance] + 1]
       /\ probed' = [probed EXCEPT ![instance] = "failed"]
  /\ test_instances' = Tail(test_instances)
  /\ UNCHANGED <<pc, last_success, avg_response_time, primary_instance, now,
                 best_instance, best_response_time, probe_time>>
  /\ UNCHANGED searchLocals

\* the status probe raises
ProbeException ==
  /\ pc = "probing" /\ test_instances # <<>>
  /\ LET instance == Head(test_instances) IN
       /\ failures' = [failures EXCEPT ![instance] = failures[instance] + 1]
       /\ probed' = [probed EXCEPT ![instance] = "failed"]
  /\ test_instances' = Tail(test_instances)
  /\ UNCHANGED <<pc, last_success, avg_response_time, primary_instance, now,
                 best_instance, best_response_time, probe_time>>
  /\ UNCHANGED searchLocals

\* after the loop: select the primary
SelectPrimary ==
  /\ pc = "probing" /\ test_instances = <<>>
  /\ primary_instance' = IF best_instance # None THEN best_instance ELSE 1
  /\ pc' = "idle"
  /\ UNCHANGED <<failures, last_success, avg_response_time, now, test_instances,
                 best_instance, best_response_time, probed, probe_time>>
  /\ UNCHANGED searchLocals

(***************************************************************************)
(* SearxNGEngine.search                                                    *)
(***************************************************************************)
initState == <<primary_instance, test_instances, best_instance,
               best_response_time, probed, probe_time, outsideSearx>>

\* entry of search: compute the trial order, last_error = None
StartSearch ==
  /\ pc \in {"idle", "returned", "raised"}
  /\ requests + NumInstances <= MaxRequests
  /\ \E args \in CallArgs :
       /\ neighborhood' = args.neighborhood
       /\ max_results' = args.max_results
  /\ available_instances' =
       get_available_instances(primary_instance, failures, last_success)
  /\ idx' = 1
  /\ last_error' = NoError
  /\ results' = NoResults
  /\ stats0' = [failures |-> failures, last_success |-> last_success,
                avg_response_time |-> avg_response_time]
  /\ trace' = <<>>
  /\ pc' = "searching"
  /\ UNCHANGED <<failures, last_success, avg_response_time, now, requests>>
  /\ UNCHANGED initState

Attempting == pc = "searching" /\ idx <= Len(available_instances)

\* the source lists that the payloads of a 200 answer leave after parsing,
\* filtering and truncation, for the arguments of the current call
PostFilterOutcomes ==
  { PostFilter(data, neighborhood, max_results) : data \in Payloads }

\* variant: the delay is also inserted after the last instance
NextInstance_always_delay(out, cooldown) ==
  /\ trace' = trace \o <<AttemptEv(available_instances[idx], out)>>
                    \o (IF cooldown > 0 THEN <<SleepEv(cooldown)>> ELSE <<>>)
                    \o <<SleepEv(InstanceDelay)>>
  /\ idx' = idx + 1
  /\ requests' = requests + 1
  /\ UNCHANGED <<pc, available_instances, neighborhood, max_results, results,
                 stats0>>
  /\ UNCHANGED initState

\* the end of a loop iteration that did not return: the delay between
\* instance attempts, then the next instance
NextInstance(out, cooldown) ==
  /\ trace' = trace \o <<AttemptEv(available_instances[idx], out)>>
                    \o (IF cooldown > 0 THEN <<SleepEv(cooldown)>> ELSE <<>>)
                    \o (IF idx < Len(available_instances)
                          THEN <<SleepEv(InstanceDelay)>> ELSE <<>>)
  /\ idx' = idx + 1
  /\ requests' = requests + 1
  /\ UNCHANGED <<pc, available_instances, neighborhood, max_results, results,
                 stats0>>
  /\ UNCHANGED initState

\* variant: the envelope is built but the loop goes on to the next instance
AttemptSuccess_no_return ==
  /\ Attempting
  /\ LET instance == available_instances[idx] IN
     \E sources \in PostFilterOutcomes, response_time \in 1 .. MaxRT :
       /\ sources # <<>>
       /\ failures' = mark_instance_success(failures, instance)
       /\ last_success' = [last_success EXCEPT ![instance] = now]
       /\ avg_response_time' = [avg_response_time EXCEPT ![instance] = response_time]
       /\ results' = [kind |-> "ok", sources |-> sources,
                      instance_used |-> instance,
                      total_results |-> Len(sources), error |-> NoError]
       /\ trace' = trace \o <<AttemptEv(instance, "success")>>
  /\ now' = now + 1
  /\ idx' = idx + 1
  /\ requests' = requests + 1
  /\ UNCHANGED <<pc, available_instances, last_error, neighborhood,
                 max_results, stats0>>
  /\ UNCHANGED initState

\* HTTP 200, parseable payload, at least one source after filtering
AttemptSuccess ==
  /\ Attempting
  /\ LET instance == available_instances[idx] IN
     \E sources \in PostFilterOutcomes, response_time \in 1 .. MaxRT :
       /\ sources # <<>>
       /\ failures' = mark_instance_success(failures, instance)
       /\ last_success' = [last_success EXCEPT ![instance] = now]
       /\ avg_response_time' = [avg_response_time EXCEPT ![instance] = response_time]
       /\ results' = [kind |-> "ok", sources |-> sources,
                      instance_used |-> instance,
                      total_results |-> Len(sources), error |-> NoError]
       /\ trace' = trace \o <<AttemptEv(instance, "success")>>
  /\ now' = now + 1
  /\ requests' = requests + 1
  /\ pc' = "returned"
  /\ UNCHANGED <<available_instances, idx, last_error, neighborhood,
                 max_results, stats0>>
  /\ UNCHANGED initState

\* variant: an empty result list is recorded as a failure of the instance
AttemptNoResults_punitive ==
  /\ Attempting
  /\ <<>> \in PostFilterOutcomes
  /\ failures' = mark_instance_failure(failures, available_instances[idx])
  /\ NextInstance("no_results", 0)
  /\ UNCHANGED <<last_success, avg_response_time, now, last_error>>

\* HTTP 200, parseable payload, no source left after filtering
AttemptNoResults ==
  /\ Attempting
  /\ <<>> \in PostFilterOutcomes
  /\ NextInstance("no_results", 0)
  /\ UNCHANGED <<failures, last_success, avg_response_time, now, last_error>>

\* HTTP 200, response.json() raises JSONDecodeError
AttemptJsonError ==
  /\ Attempting
  /\ failures' = mark_instance_failure(failures, available_instances[idx])
  /\ last_error' = "JSON decode error"
  /\ NextInstance("failed", 0)
  /\ UNCHANGED <<last_success, avg_response_time, now>>

\* HTTP 200 with a JSON payload that is not a container (null, a number):
\* "'results' not in data" raises TypeError, which no handler of search
\* catches, so the call raises to its caller
AttemptBadPayload ==
  /\ Attempting
  /\ trace' = trace \o <<AttemptEv(available_instances[idx], "bad_payload")>>
  /\ results' = [NoResults EXCEPT !.kind = "raised"]
  /\ requests' = requests + 1
  /\ pc' = "raised"
  /\ UNCHANGED <<failures, last_success, avg_response_time, now,
                 available_instances, idx, last_error, neighborhood,
                 max_results, stats0>>
  /\ UNCHANGED initState

\* HTTP 429
AttemptRateLimited ==
  /\ Attempting
  /\ failures' = mark_instance_failure(failures, available_instances[idx])
  /\ last_error' = "Rate limited"
  /\ NextInstance("rate_limited", RateLimitCooldown)
  /\ UNCHANGED <<last_success, avg_response_time, now>>

\* any other status
AttemptHttpError ==
  /\ Attempting
  /\ failures' = mark_instance_failure(failures, available_instances[idx])
  /\ last_error' = "HTTP 500"
  /\ NextInstance("failed", 0)
  /\ UNCHANGED <<last_success, avg_response_time, now>>

\* requests.exceptions.Timeout
AttemptTimeout ==
  /\ Attempting
  /\ failures' = mark_instance_failure(failures, available_instances[idx])
  /\ last_error' = "Request timeout"
  /\ NextInstance("failed", 0)
  /\ UNCHANGED <<last_success, avg_response_time, now>>

\* requests.exceptions.RequestException
AttemptRequestError ==
  /\ Attempting
  /\ failures' = mark_instance_failure(failures, available_instances[idx])
  /\ last_error' = "Request error"
  /\ NextInstance("failed", 0)
  /\ UNCHANGED <<last_success, avg_response_time, now>>

\* after the loop: the error envelope
ReturnExhausted ==
  /\ pc = "searching" /\ idx > Len(available_instances)
  /\ results' = [kind |-> "error", sources |-> <<>>, instance_used |-> None,
                 total_results |-> 0,
                 error |-> IF last_error # NoError THEN last_error
                           ELSE "All instances failed"]
  /\ pc' = "returned"
  /\ UNCHANGED <<failures, last_success, avg_response_time, now,
                 available_instances, idx, last_error, neighborhood,
                 max_results, requests, stats0, trace>>
  /\ UNCHANGED initState

Next ==
  \/ ShuffleTestInstances
  \/ ProbeOk
  \/ ProbeBadStatus
  \/ ProbeException
  \/ SelectPrimary
  \/ StartSearch
  \/ AttemptSuccess
  \/ AttemptNoResults
  \/ AttemptJsonError
  \/ AttemptBadPayload
  \/ AttemptRateLimited
  \/ AttemptHttpError
  \/ AttemptTimeout
  \/ AttemptRequestError
  \/ ReturnExhausted

Spec == Init /\ [][Next]_vars

(***************************************************************************)
(* SEARCH_CATEGORIES and CategoryDetector                                  *)
(*                                                                         *)
(* A query is represented by the number of keywords and the number of      *)
(* patterns of each category that it matches.                              *)
(***************************************************************************)
\* the keys of SEARCH_CATEGORIES, in declaration order
Categories == <<"crime_rate", "cleanliness", "public_perception",
                "investment_potential", "general_info">>

CategorySet == Range(Categories)

\* a query matches 0..MaxKeywordHits keywords of a category
MaxKeywordHits == 1
\* a query matches 0..MaxPatternHits patterns of a category
MaxPatternHits == 1

Queries == [kw : [CategorySet -> 0 .. MaxKeywordHits],
            pat : [CategorySet -> 0 .. MaxPatternHits]]

\* variant: a pattern weighs as much as a keyword
CategoryScore_flat(q, c) == q.kw[c] + q.pat[c]

\* the score of one category: 1 per keyword, 3 per pattern
CategoryScore(q, c) == q.kw[c] + 3 * q.pat[c]

IndexOf(seq, x) == CHOOSE i \in DOMAIN seq : seq[i] = x

\* detect_categories: (priority_category, detected)
detect_categories(q) ==
  LET hits == SelectSeq(Categories, LAMBDA c : CategoryScore(q, c) > 0)
      detected == IF hits = <<>> THEN <<"general_info">> ELSE hits
      scores == [c \in Range(detected) |->
                   IF hits = <<>> THEN 1 ELSE CategoryScore(q, c)]
      \* max(scores, key=scores.get): the first key with the highest score
      priority == CHOOSE c \in Range(detected) :
                    /\ \A d \in Range(detected) : scores[d] <= scores[c]
                    /\ \A d \in Range(detected) :
                         IndexOf(detected, d) < IndexOf(detected, c)
                           => scores[d] < scores[c]
  IN  <<priority, detected>>

get_remaining_categories(detected_categories) ==
  SelectSeq(Categories, LAMBDA cat : cat \notin Range(detected_categories))

analyze_query(q) ==
  LET d == detect_categories(q) IN
  [priority_category |-> d[1],
   detected_categories |-> d[2],
   background_categories |-> get_remaining_categories(d[2])]

(***************************************************************************)
(* search_neighborhood                                                     *)
(***************************************************************************)
CallEv(c, t) == [ev |-> "call", cat |-> c, at |-> t, d |-> 0]
ReturnEv(c, t) == [ev |-> "return", cat |-> c, at |-> t, d |-> 0]
DelayEv(t, d) == [ev |-> "sleep", cat |-> "-", at |-> t, d |-> d]

\* all_results[category] = result on a dict that keeps insertion order
DictSet(items, k, v) ==
  IF \E i \in DOMAIN items : items[i].key = k
    THEN [i \in DOMAIN items |->
            IF items[i].key = k THEN [key |-> k, value |-> v] ELSE items[i]]
    ELSE Append(items, [key |-> k, value |-> v])

Keys(items) == [i \in DOMAIN items |-> items[i].key]

\* a category search takes 1..MaxSearchTime
MaxSearchTime == 1
\* a category search returns 0..MaxTotal sources
MaxTotal == 1

\* the envelopes search_single_category returns: the engine's envelope, or
\* the error envelope built in its except branch
CategoryEnvelopes ==
  [error : {FALSE}, total_results : 0 .. MaxTotal]
    \cup [error : {TRUE}, total_results : {0}]

\* variant: the delay also follows the last category
category_delay_always(i, n) == CategoryDelay

\* the delay at the end of iteration i of n
category_delay(i, n) == IF i < n THEN CategoryDelay ELSE 0

\* analyze the query and build the list of categories to search
AnalyzeQuery ==
  /\ cpc = "start"
  /\ \E q \in Queries :
       /\ analysis' = analyze_query(q)
       /\ all_categories' = <<analysis'.priority_category>>
                              \o analysis'.background_categories
  /\ ci' = 1
  /\ all_results' = <<>>
  /\ cpc' = "loop"
  /\ UNCHANGED <<response, cnow, clog>>
  /\ UNCHANGED outsideCoord

\* loop body: call search_single_category for all_categories[i]
CategorySearchCall ==
  /\ cpc = "loop" /\ ci <= Len(all_categories)
  /\ clog' = Append(clog, CallEv(all_categories[ci], cnow))
  /\ cpc' = "in_search"
  /\ UNCHANGED <<analysis, all_categories, ci, all_results, response, cnow>>
  /\ UNCHANGED outsideCoord

\* search_single_category returns (category, result); all_results[category] = result
CategorySearchReturn ==
  /\ cpc = "in_search"
  /\ \E result \in CategoryEnvelopes, elapsed \in 1 .. MaxSearchTime :
       /\ all_results' = DictSet(all_results, all_categories[ci], result)
       /\ cnow' = cnow + elapsed
       /\ clog' = Append(clog, ReturnEv(all_categories[ci], cnow'))
  /\ cpc' = "after_search"
  /\ UNCHANGED <<analysis, all_categories, ci, response>>
  /\ UNCHANGED outsideCoord

\* the delay between categories, then the next iteration
CategoryDelayStep ==
  /\ cpc = "after_search"
  /\ LET d == category_delay(ci, Len(all_categories)) IN
       /\ cnow' = cnow + d
       /\ clog' = IF d > 0 THEN Append(clog, DelayEv(cnow, d)) ELSE clog
  /\ ci' = ci + 1
  /\ cpc' = "loop"
  /\ UNCHANGED <<analysis, all_categories, all_results, response>>
  /\ UNCHANGED outsideCoord

\* after the loop: build the response and save it
FinishRun ==
  /\ cpc = "loop" /\ ci > Len(all_categories)
  /\ \E saved_file \in BOOLEAN :
       response' = IF saved_file THEN "response" ELSE "None"
  /\ cpc' = "done"
  /\ UNCHANGED <<analysis, all_categories, ci, all_results, cnow, clog>>
  /\ UNCHANGED outsideCoord

CoordNext ==
  \/ AnalyzeQuery
  \/ CategorySearchCall
  \/ CategorySearchReturn
  \/ CategoryDelayStep
  \/ FinishRun

CoordSpec == Init /\ [][CoordNext]_vars

(***************************************************************************)
(* Sources and SearxNGEngine._filter_relevant_results in detail            *)
(*                                                                         *)
(* A text (title, snippet, url) is represented by what the filter looks    *)
(* for in it: the non-empty location words it contains and the configured  *)
(* irrelevant terms it contains.  The empty string is contained in every   *)
(* text ("'' in s" is True).                                               *)
(***************************************************************************)
\* sources of one filter call: 0..MaxFilterSources
MaxFilterSources == 2

LocationWords == {"malasana", "madrid"}
\* irrelevant_terms (the code configures 14)
IrrelevantTerms == {"taco", "nasa"}
\* "relevance_score -= 5"
IrrelevantPenalty == 5

Text(loc, irr) == [loc |-> loc, irr |-> irr]
PlainText == Text({}, {})

\* the neighborhood arguments of a filter call
Neighborhoods == {"", "Malasana", "Malasana, Madrid", "Madrid, "}

\* location_terms: the stripped lower-cased parts of a name with a comma,
\* else the lower-cased name
location_terms(nbhd) ==
  CASE nbhd = "Malasana" -> {"malasana"}
    [] nbhd = "Malasana, Madrid" -> {"malasana", "madrid"}
    [] nbhd = "Madrid, " -> {"madrid", ""}
    [] OTHER -> {nbhd}

\* "term in text_lower"
Contains(text, term) == term = "" \/ term \in text.loc

\* the sources handed to the filter
FilterSources ==
  [title : { Text(l, i) : l \in {{}, {"malasana", "madrid"}},
                          i \in {{}, {"taco"}, {"taco", "nasa"}} },
   snippet : {PlainText, Text({"malasana"}, {"taco"})},
   url : {PlainText, Text({"madrid"}, {})}]

\* variant: the penalty is charged for the title and for the snippet
relevance_score_double_penalty(source, terms) ==
    3 * Cardinality({t \in terms : Contains(source.title, t)})
  + 2 * Cardinality({t \in terms : Contains(source.snippet, t)})
  + Cardinality({t \in terms : Contains(source.url, t)})
  - IrrelevantPenalty * (Cardinality(source.title.irr)
                           + Cardinality(source.snippet.irr))

\* the score of one source: +3 / +2 / +1 per location term in title / snippet
\* / url, -5 per irrelevant term in title or snippet
relevance_score(source, terms) ==
    3 * Cardinality({t \in terms : Contains(source.title, t)})
  + 2 * Cardinality({t \in terms : Contains(source.snippet, t)})
  + Cardinality({t \in terms : Contains(source.url, t)})
  - IrrelevantPenalty
      * Cardinality({t \in IrrelevantTerms :
                       t \in source.title.irr \/ t \in source.snippet.irr})

\* a kept source: source['relevance_score'] = relevance_score
Scored(source, score) == [source |-> source, relevance_score |-> score]

\* the loop over the sources: keep those with a positive score
RECURSIVE KeepRelevant(_, _)
KeepRelevant(srcs, terms) ==
  IF srcs = <<>> THEN <<>>
  ELSE LET score == relevance_score(Head(srcs), terms) IN
         (IF score > 0 THEN <<Scored(Head(srcs), score)>> ELSE <<>>)
           \o KeepRelevant(Tail(srcs), terms)

\* filtered.sort(key=relevance_score, reverse=True): stable
RECURSIVE SortByScore(_)
SortByScore(s) ==
  IF s = <<>> THEN <<>>
  ELSE LET k == CHOOSE i \in DOMAIN s :
                  /\ \A j \in DOMAIN s : s[j].relevance_score <= s[i].relevance_score
                  /\ \A j \in 1 .. (i - 1) : s[j].relevance_score < s[i].relevance_score
       IN  <<s[k]>> \o SortByScore(SubSeq(s, 1, k - 1) \o SubSeq(s, k + 1, Len(s)))

\* an unfiltered source carries no relevance_score
Unscored(srcs) == [i \in DOMAIN srcs |-> Scored(srcs[i], "absent")]

FilterRelevantResults(srcs, nbhd) ==
  IF nbhd = "" THEN Unscored(srcs)
  ELSE SortByScore(KeepRelevant(srcs, location_terms(nbhd)))

\* search: parse max_results * 2 items, filter, sources[:max_results]
FilterAndTruncate(srcs, nbhd, maxres) ==
  Take(FilterRelevantResults(Take(srcs, maxres * 2), nbhd), maxres)

(***************************************************************************)
(* ContentExtractor.extract_content and enhance_search_results             *)
(*                                                                         *)
(* Dicts are records; d[k] = v on a dict adds or replaces a field.  The    *)
(* source dicts live in a heap (a sequence of dicts, a reference is an     *)
(* index), so that a copy and the original are distinct objects.           *)
(***************************************************************************)
\* sources of one envelope handed to enhance_search_results: 0..MaxSources
MaxSources == 2

\* Python's None where the other values are strings
NoneStr == "None"

SetItem(d, k, v) == [f \in DOMAIN d \cup {k} |-> IF f = k THEN v ELSE d[f]]

HasKey(d, k) == k \in DOMAIN d

\* the urls of the sources: missing, the placeholder of the DuckDuckGo string
\* result, a deny-listed domain, any other page
Urls == {"", "No URL", "https://www.tripadvisor.com/x", "https://example.org/x"}

\* "any(blocked in domain for blocked in self.blocked_domains)"
is_blocked(url) == url = "https://www.tripadvisor.com/x"

\* what fetching and parsing a page gives: the request or the parser raises,
\* the page has neither a relevant paragraph nor a meta description, the
\* cleaned meta description is empty, or there is content
PageOutcomes == {"raises", "nothing", "", "extracted content"}

\* "if extracted_content:"
Truthy(x) == x # NoneStr /\ x # ""

extract_content(url, page) ==
  IF url = "" \/ url = "No URL" THEN NoneStr
  ELSE IF is_blocked(url) THEN NoneStr
  ELSE IF page = "raises" \/ page = "nothing" THEN NoneStr
  ELSE page

\* source.copy(): a new dict with the same items
copy(h, ref) == [heap |-> Append(h, h[ref]), ref |-> Len(h) + 1]

\* variant: the extracted content replaces the snippet whatever it is
enhance_fields_always(source, extracted_content) ==
  SetItem(SetItem(source, "snippet", extracted_content),
          "content_enhanced", Truthy(extracted_content))

\* the body of the loop of enhance_search_results on the copied dict
enhance_fields(source, extracted_content) ==
  IF Truthy(extracted_content)
    THEN SetItem(SetItem(source, "snippet", extracted_content),
                 "content_enhanced", TRUE)
    ELSE SetItem(source, "content_enhanced", FALSE)

\* one iteration of the loop: the new heap and the reference appended to
\* enhanced_sources
enhance_source(h, ref, page) ==
  LET c == copy(h, ref) IN
    [heap |-> [c.heap EXCEPT ![c.ref] =
                 enhance_fields(@, extract_content(h[ref].url, page))],
     ref |-> c.ref]

RECURSIVE EnhanceLoop(_, _, _, _)
EnhanceLoop(h, refs, pages, k) ==
  IF k > Len(refs) THEN [heap |-> h, refs |-> <<>>]
  ELSE LET e == enhance_source(h, refs[k], pages[k])
           rest == EnhanceLoop(e.heap, refs, pages, k + 1)
       IN  [heap |-> rest.heap, refs |-> <<e.ref>> \o rest.refs]

\* enhance_search_results(results, search_context) with the sources of the
\* envelope in heap h and pages[k] the page of the k-th source; returns the
\* envelope and the heap after the call
enhance_search_results(res, h, pages) ==
  IF res.sources = <<>> THEN [results |-> res, heap |-> h]
  ELSE LET e == EnhanceLoop(h, res.sources, pages, 1)
           enhanced_count ==
             Cardinality({k \in DOMAIN e.refs : e.heap[e.refs[k]].content_enhanced})
       IN  [results |->
              SetItem(SetItem(res, "sources", e.refs), "content_extraction",
                      [enhanced_count |-> enhanced_count,
                       total_sources |-> Len(e.refs)]),
            heap |-> e.heap]

\* the dicts a list of references denotes
Deref(h, refs) == [k \in DOMAIN refs |-> h[refs[k]]]

(***************************************************************************)
(* ConfidenceScorer                                                        *)
(*                                                                         *)
(* A source is represented by what the scorer reads from it: its url, the  *)
(* number of terms of each list that "title snippet" contains, the year    *)
(* and update indicators found, and its flags.                             *)
(***************************************************************************)
\* number of words of the search context found in the content: 0..MaxWords
MaxWords == 8

\* the lengths of the term lists of the scorer
NumNeighborhoodTerms == 8
NumHighIndicators == 15
NumMediumIndicators == 10
NumLowIndicators == 6
NumDataPatterns == 6

min(a, b) == IF a <= b THEN a ELSE b

\* the urls of the scored sources; "missing" is a source without the key
\* and NoneStr a source whose url is None
ConfidenceUrls == {"missing", NoneStr, "", "No URL",
                   "https://www.tripadvisor.com/x",
                   "https://example.org/x", "https://www.madrid.es/x",
                   "https://foo.weebly.com/x"}

\* get_domain_authority(source.get('url', ''))
get_domain_authority(url) ==
  CASE url = "https://www.madrid.es/x" -> 40
    [] url = "https://www.tripadvisor.com/x" -> 20
    [] url = "https://foo.weebly.com/x" -> 7
    [] url = NoneStr -> 10
    [] OTHER -> 15

neighborhood_specificity(f) == min(2 * f.neighborhood_hits, 10)

\* min(int(relevance_score * 1.5), 10)
query_relevance(f) == min((3 * f.word_hits) \div 2, 10)

content_depth(f) == max(min(3 * f.high - f.low + 2 * f.medium, 10), 0)

\* variant: the sum over the data patterns is not capped
data_richness_uncapped(f) == 2 * f.data_hits

data_richness(f) == min(2 * f.data_hits, 10)

analyze_content_quality(f) ==
  [neighborhood_specificity |-> neighborhood_specificity(f),
   query_relevance |-> query_relevance(f),
   content_depth |-> content_depth(f),
   data_richness |-> data_richness(f)]

\* f.years are those of last year, this year and next year that the content
\* contains; the loop looks for them in this order and stops at the first
\* one found
estimate_content_recency(f) ==
  LET by_year == IF "previous" \in f.years THEN 8
                 ELSE IF "current" \in f.years THEN 10
                 ELSE 0
      recency_score == IF f.recent_indicator THEN max(by_year, 6) ELSE by_year
  IN  IF recency_score = 0 THEN 5 ELSE recency_score

technical_quality(f) ==
    (IF f.content_enhanced THEN 5 ELSE 0)
  + (IF f.long_snippet THEN 3 ELSE 0)
  + (IF f.url # "No URL" THEN 2 ELSE 0)

confidence_level(total) ==
  CASE total >= 80 -> "very_high"
    [] total >= 65 -> "high"
    [] total >= 50 -> "medium"
    [] total >= 35 -> "low"
    [] OTHER -> "very_low"

\* f.snippet_is_str is FALSE for a snippet that is not a string: len(snippet)
\* raises and the except branch answers
calculate_confidence_score(f) ==
  IF ~f.snippet_is_str
    THEN [confidence_score |-> 25, confidence_level |-> "low", error |-> TRUE,
          rag_weight |-> [num |-> 1, den |-> 4]]
    ELSE
      LET authority_score == get_domain_authority(f.url)
          quality_metrics == analyze_content_quality(f)
          content_quality_score ==
              quality_metrics.neighborhood_specificity
            + quality_metrics.query_relevance
            + quality_metrics.content_depth + quality_metrics.data_richness
          technical_score == technical_quality(f)
          recency_score == estimate_content_recency(f)
          total_confidence ==
            min(authority_score + content_quality_score + technical_score
                  + recency_score, 100)
      IN  [confidence_score |-> total_confidence,
           confidence_level |-> confidence_level(total_confidence),
           error |-> FALSE,
           score_breakdown |-> [domain_authority |-> authority_score,
                                content_quality |-> content_quality_score,
                                technical_quality |-> technical_score,
                                recency_estimate |-> recency_score],
           quality_metrics |-> quality_metrics,
           rag_weight |-> [num |-> total_confidence, den |-> 100]]

\* the sources handed to calculate_confidence_score
ConfidenceInputs ==
  [url : ConfidenceUrls,
   neighborhood_hits : {0, 1, NumNeighborhoodTerms},
   word_hits : {0, 1, MaxWords},
   high : {0, NumHighIndicators},
   medium : {0, NumMediumIndicators},
   low : {0, NumLowIndicators},
   data_hits : {0, 1, NumDataPatterns},
   years : SUBSET {"previous", "current", "next"},
   recent_indicator : BOOLEAN,
   content_enhanced : BOOLEAN,
   long_snippet : BOOLEAN,
   snippet_is_str : BOOLEAN]

(***************************************************************************)
(* DuckDuckGoEngine and search_single_category                             *)
(***************************************************************************)
\* backend requests sent by one engine: at most MaxSearches
MaxSearches == 2
\* a backend request takes 0..MaxRequestTime
MaxRequestTime == 1
\* a list answered by the backend has 0..MaxListed items
MaxListed == 3

\* the category arguments: the keys of SEARCH_CATEGORIES and one that is not
DdgCategories == CategorySet \cup {"nightlife"}

\* the neighborhood arguments
DdgNeighborhoods == {"", "Malasana"}

\* the items of a list answered by the backend
DdgItems ==
  { [title |-> "Best tacos in town", url |-> "https://example.org/x",
     snippet |-> "original snippet"],
    [title |-> "Living in Malasana", url |-> "https://www.tripadvisor.com/x",
     snippet |-> "original snippet"] }

\* a list item that is not a dict
NotADict == [not_a_dict |-> TRUE]
IsDict(x) == ~HasKey(x, "not_a_dict")

\* the single source built from a string answer
StringSource(raw_results) ==
  [title |-> "Search Result", url |-> "No URL", snippet |-> raw_results]

\* what a text of the DuckDuckGo sources contains
TextOf(str) ==
  CASE str = "Best tacos in town" -> Text({}, {"taco"})
    [] str = "Living in Malasana" -> Text({"malasana"}, {})
    [] str = "Malasana is lively" -> Text({"malasana"}, {})
    [] OTHER -> PlainText

\* the relevance score _filter_relevant_results gives a source dict
SourceRelevance(source, nbhd) ==
  relevance_score([title |-> TextOf(source.title),
                   snippet |-> TextOf(source.snippet),
                   url |-> TextOf(source.url)], location_terms(nbhd))

\* what the scorer reads from a source dict of the DuckDuckGo model: its
\* texts are short and contain none of the scored terms
SourceFeatures(source) ==
  [url |-> source.url, neighborhood_hits |-> 0, word_hits |-> 0, high |-> 0,
   medium |-> 0, low |-> 0, data_hits |-> 0, years |-> {},
   recent_indicator |-> FALSE,
   content_enhanced |-> IF HasKey(source, "content_enhanced")
                          THEN source.content_enhanced ELSE FALSE,
   long_snippet |-> FALSE, snippet_is_str |-> TRUE]

\* score_search_results: every source is copied and updated with its
\* confidence data, in order
score_search_results(srcs) ==
  [k \in DOMAIN srcs |->
     LET confidence_data == calculate_confidence_score(SourceFeatures(srcs[k]))
     IN  SetItem(SetItem(srcs[k], "confidence_score",
                         confidence_data.confidence_score),
                 "confidence_level", confidence_data.confidence_level)]

\* the structured extraction stage: every source with a non-empty snippet
\* gets structured_data
add_structured_data(srcs, cat, nbhd) ==
  IF srcs # <<>> /\ cat # "" /\ nbhd # ""
    THEN [k \in DOMAIN srcs |->
            IF srcs[k].snippet # ""
              THEN SetItem(srcs[k], "structured_data", "dict") ELSE srcs[k]]
    ELSE srcs

\* enhance_search_results on the source dicts srcs
enhance_sources(srcs, pages) ==
  LET e == enhance_search_results(
             [sources |-> [k \in DOMAIN srcs |-> k], total_results |-> Len(srcs)],
             srcs, pages)
  IN  Deref(e.heap, e.results.sources)

\* variant: sources whose content could not be extracted are left out
Pipeline_enhanced_only(srcs, pages, cat, nbhd) ==
  add_structured_data(
    score_search_results(
      SelectSeq(enhance_sources(srcs, pages), LAMBDA x : x.content_enhanced)),
    cat, nbhd)

\* the stages after the envelope is built (enhance_content and add_confidence
\* are True in search_single_category); all of them are skipped without sources
Pipeline(srcs, pages, cat, nbhd) ==
  add_structured_data(score_search_results(enhance_sources(srcs, pages)),
                      cat, nbhd)

\* the envelope search returns normally
SuccessEnvelope(srcs, total) ==
  [kind |-> "envelope", sources |-> srcs, total_results |-> total,
   error |-> FALSE]

\* the envelope of the except branches of search and search_single_category
ErrorEnvelope ==
  [kind |-> "envelope", sources |-> <<>>, total_results |-> 0, error |-> TRUE]

\* an exception that leaves the function
Raised == [kind |-> "raised", sources |-> <<>>, total_results |-> 0,
           error |-> TRUE]

\* the except branch of search: it formats time.time() - start_time
search_except(st) == IF st = Unbound THEN Raised ELSE ErrorEnvelope

\* variant: no sleep
sleep_time_none(current_time, last) == 0

\* _apply_rate_limiting: the sleep before the request
sleep_time(current_time, last) ==
  IF current_time - last < MinDelay THEN MinDelay - (current_time - last) ELSE 0

\* time passes outside the calls
Wait ==
  /\ dpc = "idle"
  /\ Len(request_times) < MaxSearches
  /\ dnow - last_search_time <= MinDelay
  /\ dnow' = dnow + 1
  /\ UNCHANGED <<dpc, last_search_time, dcategory, dneighborhood, start_time,
                 dsources, search_result, single_result, request_times, slept>>
  /\ UNCHANGED outsideDdg

\* search_single_category(engine, neighborhood, category) with a category that
\* is not a key of SEARCH_CATEGORIES: the KeyError is caught by its except
\* branch, which returns the error envelope
SingleCategoryKeyError ==
  /\ dpc = "idle"
  /\ \E cat \in DdgCategories \ CategorySet, nbhd \in DdgNeighborhoods :
       single_result' = [category |-> cat, result |-> ErrorEnvelope]
  /\ UNCHANGED <<dpc, last_search_time, dnow, dcategory, dneighborhood,
                 start_time, dsources, search_result, request_times, slept>>
  /\ UNCHANGED outsideDdg

\* search_single_category with a configured category: engine.search is entered
SingleCategoryCall ==
  /\ dpc = "idle"
  /\ Len(request_times) < MaxSearches
  /\ \E cat \in CategorySet, nbhd \in DdgNeighborhoods :
       /\ dcategory' = cat
       /\ dneighborhood' = nbhd
  /\ single_result' = NoSingle
  /\ dpc' = "rate_limiting"
  /\ UNCHANGED <<last_search_time, dnow, start_time, dsources, search_result,
                 request_times, slept>>
  /\ UNCHANGED outsideDdg

\* _apply_rate_limiting returns
ApplyRateLimiting ==
  /\ dpc = "rate_limiting"
  /\ slept' = sleep_time(dnow, last_search_time)
  /\ dnow' = dnow + slept'
  /\ last_search_time' = dnow'
  /\ dpc' = "request"
  /\ UNCHANGED <<dcategory, dneighborhood, start_time, dsources, search_result,
                 single_result, request_times>>
  /\ UNCHANGED outsideDdg

\* _apply_rate_limiting raises (a delay_between_searches that cannot be
\* compared with a number): the except branch of search runs before
\* start_time is assigned
RateLimitingRaises ==
  /\ dpc = "rate_limiting"
  /\ search_result' = search_except(start_time)
  /\ dpc' = "search_ended"
  /\ UNCHANGED <<last_search_time, dnow, dcategory, dneighborhood, start_time,
                 dsources, single_result, request_times, slept>>
  /\ UNCHANGED outsideDdg

\* "start_time = time.time()" and the request self.search_wrapper.run(query),
\* which takes elapsed
BackendRequest(elapsed) ==
  /\ dpc = "request"
  /\ start_time' = dnow
  /\ request_times' = Append(request_times, dnow)
  /\ dnow' = dnow + elapsed
  /\ UNCHANGED <<last_search_time, dcategory, dneighborhood, single_result,
                 slept>>
  /\ UNCHANGED outsideDdg

\* the strings the backend answers
RawStrings == {"", "Malasana is lively", "original snippet"}

\* the non-empty lists the backend answers, cut to max_results_per_category
ListOutcomes ==
  { Take(raw_results, MaxPerCategory) :
      raw_results \in UNION { [1 .. n -> DdgItems] : n \in 1 .. MaxListed } }

\* the backend raises
ProviderRaises ==
  /\ \E elapsed \in 0 .. MaxRequestTime : BackendRequest(elapsed)
  /\ search_result' = search_except(start_time')
  /\ dpc' = "search_ended"
  /\ UNCHANGED dsources

\* the backend answers a string
ProviderReturnsString ==
  /\ \E elapsed \in 0 .. MaxRequestTime : BackendRequest(elapsed)
  /\ \E raw_results \in RawStrings : dsources' = <<StringSource(raw_results)>>
  /\ dpc' = "pipeline"
  /\ UNCHANGED search_result

\* the backend answers a non-empty list of dicts
ProviderReturnsList ==
  /\ \E elapsed \in 0 .. MaxRequestTime : BackendRequest(elapsed)
  /\ \E srcs \in ListOutcomes : dsources' = srcs
  /\ dpc' = "pipeline"
  /\ UNCHANGED search_result

\* the backend answers a list with an item that is not a dict
ProviderReturnsBadList ==
  /\ \E elapsed \in 0 .. MaxRequestTime : BackendRequest(elapsed)
  /\ dsources' = <<NotADict>>
  /\ dpc' = "pipeline"
  /\ UNCHANGED search_result

\* the backend answers an empty list, or neither a string nor a list
ProviderReturnsOther ==
  /\ \E elapsed \in 0 .. MaxRequestTime : BackendRequest(elapsed)
  /\ dsources' = <<>>
  /\ dpc' = "pipeline"
  /\ UNCHANGED search_result

\* the envelopes the stages can produce for the sources, over the pages
PipelineOutcomes ==
  { Pipeline(dsources, pages, dcategory, dneighborhood) :
      pages \in [DOMAIN dsources -> PageOutcomes] }

\* the envelope is built with total_results = len(sources), the stages run
\* and search returns the envelope
PipelineStages ==
  /\ dpc = "pipeline"
  /\ \A k \in DOMAIN dsources : IsDict(dsources[k])
  /\ \E srcs \in PipelineOutcomes :
       search_result' = SuccessEnvelope(srcs, Len(dsources))
  /\ dpc' = "search_ended"
  /\ UNCHANGED <<last_search_time, dnow, dcategory, dneighborhood, start_time,
                 dsources, single_result, request_times, slept>>
  /\ UNCHANGED outsideDdg

\* a stage raises on the item that is not a dict: the except branch of search
PipelineRaises ==
  /\ dpc = "pipeline"
  /\ \E k \in DOMAIN dsources : ~IsDict(dsources[k])
  /\ search_result' = search_except(start_time)
  /\ dpc' = "search_ended"
  /\ UNCHANGED <<last_search_time, dnow, dcategory, dneighborhood, start_time,
                 dsources, single_result, request_times, slept>>
  /\ UNCHANGED outsideDdg

\* search_single_category returns (category, result), or the error envelope
\* of its except branch when engine.search raised; the arguments and locals
\* of the two calls are gone
SingleCategoryReturn ==
  /\ dpc = "search_ended"
  /\ single_result' =
       [category |-> dcategory,
        result |-> IF search_result.kind = "raised" THEN ErrorEnvelope
                   ELSE search_result]
  /\ dpc' = "idle"
  /\ dcategory' = ""
  /\ dneighborhood' = ""
  /\ start_time' = Unbound
  /\ dsources' = <<>>
  /\ search_result' = NoEnvelope
  /\ UNCHANGED <<last_search_time, dnow, request_times, slept>>
  /\ UNCHANGED outsideDdg

DdgNext ==
  \/ Wait
  \/ SingleCategoryKeyError
  \/ SingleCategoryCall
  \/ ApplyRateLimiting
  \/ RateLimitingRaises
  \/ ProviderRaises
  \/ ProviderReturnsString
  \/ ProviderReturnsList
  \/ ProviderReturnsBadList
  \/ ProviderReturnsOther
  \/ PipelineStages
  \/ PipelineRaises
  \/ SingleCategoryReturn

DdgSpec == Init /\ [][DdgNext]_vars

(***************************************************************************)
(* StructuredExtractor._validate_metric_context and the validation loop of *)
(* extract_structured_data                                                 *)
(*                                                                         *)
(* A snippet is represented by whether it contains an exclusionary phrase  *)
(* and by its sentences (snippet.split('.')); the empty sequence is the    *)
(* empty snippet.  The raw metrics of one snippet carry the same value.    *)
(* A sentence is represented by                                            *)
(*   variation     it contains one of metric_variations (the value without *)
(*                 a trailing ".0", its integer part, or the rounded value *)
(*                 with comma grouping) as a substring;                    *)
(*   occurrence    it is where the text states the value the metric was    *)
(*                 extracted from;                                         *)
(*   neighborhood  it contains a part of the target name;                  *)
(*   real_estate   it contains one of the real-estate keywords.            *)
(***************************************************************************)
\* sentences of a snippet: 0..MaxSentences
MaxSentences == 2

Sentences == [variation : BOOLEAN, occurrence : BOOLEAN,
              neighborhood : BOOLEAN, real_estate : BOOLEAN]

\* the names of the raw metrics; the first is one of those accepted in a
\* real-estate sentence
MetricNames == {"price_per_sqm", "rating"}
PermissiveMetrics == {"price_per_sqm", "annual_growth"}

\* the target neighborhoods: none, one whose parts have at most two
\* characters, one with a longer part
TargetNeighborhoods == {"", "NY", "Salamanca, Madrid"}

\* "part ... for part in neighborhood_parts if len(part) > 2"
HasLongPart(nbhd) == nbhd = "Salamanca, Madrid"

validate_metric_context(snippet, nbhd, metric_name) ==
  IF nbhd = "" \/ snippet.sentences = <<>> THEN FALSE
  ELSE IF snippet.exclusionary THEN FALSE
  ELSE LET snippet_mentions_neighborhood ==
             HasLongPart(nbhd)
               /\ \E j \in DOMAIN snippet.sentences :
                    snippet.sentences[j].neighborhood
       IN  \E k \in DOMAIN snippet.sentences :
             LET sentence == snippet.sentences[k]
                 neighborhood_in_sentence ==
                   HasLongPart(nbhd) /\ sentence.neighborhood
             IN  /\ sentence.variation
                 /\ \/ neighborhood_in_sentence
                    \/ /\ metric_name \in PermissiveMetrics
                       /\ sentence.real_estate
                       /\ snippet_mentions_neighborhood

\* extract_structured_data from the raw metrics on: {} for an empty
\* snippet, else the dict with the validated metrics
extract_structured_data(snippet, raw_metrics, nbhd) ==
  IF snippet.sentences = <<>>
    THEN [empty |-> TRUE, extracted_metrics |-> {}]
    ELSE [empty |-> FALSE,
          extracted_metrics |->
            { m \in raw_metrics : validate_metric_context(snippet, nbhd, m) }]

(***************************************************************************)
(* The pure functions, each applied to arguments drawn in the initial      *)
(* state                                                                   *)
(***************************************************************************)
SeqsUpTo(S, n) == UNION { [1 .. k -> S] : k \in 0 .. n }

\* the state outside the function under test is the initial one
RestInit == SearxInit /\ CoordInit /\ DdgInit

\* the arguments of search that reach the filter
FilterArgs ==
  [sources : SeqsUpTo(FilterSources, MaxFilterSources),
   neighborhood : Neighborhoods,
   max_results : {1, 2}]

FilterInit ==
  /\ RestInit
  /\ fpc = "filter"
  /\ fargs \in FilterArgs
  /\ ret = <<>>

\* the parse, filter and truncation steps of search on the drawn payload
ApplyFilter ==
  /\ fpc = "filter"
  /\ LET raw_sources == Take(fargs.sources, fargs.max_results * 2)
         filtered == FilterRelevantResults(raw_sources, fargs.neighborhood)
     IN  ret' = [raw_sources |-> raw_sources, filtered |-> filtered,
                 sources |-> FilterAndTruncate(fargs.sources, fargs.neighborhood,
                                               fargs.max_results)]
  /\ fpc' = "done"
  /\ UNCHANGED fargs
  /\ UNCHANGED outsideFn

FilterSpec == FilterInit /\ [][ApplyFilter]_vars

\* the arguments of extract_structured_data after the raw extraction
\* a raw metric was extracted from the text of some sentence
MetricArgs ==
  { a \in [snippet : [exclusionary : BOOLEAN,
                      sentences : SeqsUpTo(Sentences, MaxSentences)],
           raw_metrics : SUBSET MetricNames,
           neighborhood : TargetNeighborhoods] :
      a.raw_metrics # {} =>
        \E k \in DOMAIN a.snippet.sentences :
          a.snippet.sentences[k].occurrence }

MetricInit ==
  /\ RestInit
  /\ fpc = "extract"
  /\ fargs \in MetricArgs
  /\ ret = <<>>

ApplyExtract ==
  /\ fpc = "extract"
  /\ ret' = extract_structured_data(fargs.snippet, fargs.raw_metrics,
                                    fargs.neighborhood)
  /\ fpc' = "done"
  /\ UNCHANGED fargs
  /\ UNCHANGED outsideFn

MetricSpec == MetricInit /\ [][ApplyExtract]_vars

ConfidenceInit ==
  /\ RestInit
  /\ fpc = "score"
  /\ fargs \in ConfidenceInputs
  /\ ret = <<>>

ApplyScore ==
  /\ fpc = "score"
  /\ ret' = calculate_confidence_score(fargs)
  /\ fpc' = "done"
  /\ UNCHANGED fargs
  /\ UNCHANGED outsideFn

ConfidenceSpec == ConfidenceInit /\ [][ApplyScore]_vars

DetectInit ==
  /\ RestInit
  /\ fpc = "detect"
  /\ fargs \in Queries
  /\ ret = <<>>

ApplyDetect ==
  /\ fpc = "detect"
  /\ ret' = detect_categories(fargs)
  /\ fpc' = "done"
  /\ UNCHANGED fargs
  /\ UNCHANGED outsideFn

DetectSpec == DetectInit /\ [][ApplyDetect]_vars

\* the source dicts of the envelopes handed to enhance_search_results
EnhanceSources == [title : {"Living in Malasana"}, url : Urls,
                   snippet : {"", "original snippet"}]

\* the heap holds the source dicts, results['sources'] refers to them in
\* order, and pages[k] is what the page of the k-th source gives
EnhanceArgs ==
  UNION { [heap : [1..n -> EnhanceSources],
           results : {[sources |-> [k \in 1..n |-> k], total_results |-> n]},
           pages : [1..n -> PageOutcomes]] : n \in 0..MaxSources }

EnhanceInit ==
  /\ RestInit
  /\ fpc = "enhance"
  /\ fargs \in EnhanceArgs
  /\ ret = <<>>

ApplyEnhance ==
  /\ fpc = "enhance"
  /\ ret' = enhance_search_results(fargs.results, fargs.heap, fargs.pages)
  /\ fpc' = "done"
  /\ UNCHANGED fargs
  /\ UNCHANGED outsideFn

EnhanceSpec == EnhanceInit /\ [][ApplyEnhance]_vars

(***************************************************************************)
(* StructuredExtractor.extract_key_facts and the data quality tier of      *)
(* extract_structured_data                                                 *)
(*                                                                         *)
(* The text is the sequence of its sentences.  A sentence is represented   *)
(* by the fact patterns of the category that match it, by whether its      *)
(* length is between 20 and 200, and by whether it contains a noise        *)
(* phrase.                                                                 *)
(***************************************************************************)
\* sentences of the text handed to extract_key_facts: 0..MaxFactSentences
MaxFactSentences == 2
\* validated metrics of one snippet: 0..MaxMetricCount
MaxMetricCount == 2

\* the number of fact patterns of a category (three for all but cleanliness)
NumFactPatterns == 3
\* "return facts[:5]"
MaxFacts == 5

FactSentences == [matches : SUBSET (1..NumFactPatterns),
                  fits : BOOLEAN, noise : BOOLEAN]

\* clean_text on one sentence: the noise phrases are removed
clean_text(sentence) == [sentence EXCEPT !.noise = FALSE]

\* the facts one pattern appends: its matches, in text order, that have the
\* right length and whose cleaned text is free of noise
PatternFacts(txt, pattern) ==
  LET matched == SelectSeq(txt, LAMBDA m : pattern \in m.matches /\ m.fits)
      cleaned == [k \in DOMAIN matched |-> clean_text(matched[k])]
  IN  SelectSeq(cleaned, LAMBDA fact : ~fact.noise)

RECURSIVE FactsFrom(_, _)
FactsFrom(txt, pattern) ==
  IF pattern > NumFactPatterns THEN <<>>
  ELSE PatternFacts(txt, pattern) \o FactsFrom(txt, pattern + 1)

extract_key_facts(txt) == Take(FactsFrom(txt, 1), MaxFacts)

\* variant: one metric and two facts are enough for the highest tier
data_quality_lenient(metric_count, fact_count) ==
  IF metric_count >= 1 /\ fact_count >= 2 THEN "high" ELSE "low"

\* "Assess data quality"
data_quality(metric_count, fact_count) ==
  IF metric_count >= 2 /\ fact_count >= 3 THEN "high"
  ELSE IF metric_count >= 1 /\ fact_count >= 2 THEN "medium"
  ELSE "low"

\* extract_structured_data from the validated metrics on: the key facts and
\* the tier
assess_structured_data(metric_count, txt) ==
  LET key_facts == extract_key_facts(txt) IN
    [key_facts |-> key_facts,
     data_quality |-> data_quality(metric_count, Len(key_facts))]

FactArgs == [metric_count : 0..MaxMetricCount,
             text : SeqsUpTo(FactSentences, MaxFactSentences)]

FactInit ==
  /\ RestInit
  /\ fpc = "facts"
  /\ fargs \in FactArgs
  /\ ret = <<>>

ApplyFacts ==
  /\ fpc = "facts"
  /\ ret' = assess_structured_data(fargs.metric_count, fargs.text)
  /\ fpc' = "done"
  /\ UNCHANGED fargs
  /\ UNCHANGED outsideFn

FactSpec == FactInit /\ [][ApplyFacts]_vars

(***************************************************************************)
(* scoring_engine: score_property and rank_properties                      *)
(*                                                                         *)
(* A field of a property dict is missing, a number, a string that float()  *)
(* converts, or a value that float() rejects.  The numbers are 0..2, so a  *)
(* normalized value is a multiple of 1/2 and is held in halves; a score is *)
(* held as the numerator of score / 100 over 2 * total_weight.             *)
(***************************************************************************)
\* properties handed to rank_properties: 0..MaxProperties
MaxProperties == 3

Fields == {"price", "size"}

\* the weights of the user: lower price is better, higher price is better,
\* only the price counts, nothing counts
Weights == {[price |-> -1, size |-> 2], [price |-> 2, size |-> -1],
            [price |-> 2, size |-> 0], [price |-> 0, size |-> 0]}

Missing == [kind |-> "missing", v |-> 0]
Num(n) == [kind |-> "num", v |-> n]
Str(n) == [kind |-> "str", v |-> n]
NotNumeric == [kind |-> "bad", v |-> 0]

Properties == [price : {Missing, Num(0), Num(1), Str(0), Str(2), NotNumeric},
               size : {Missing, Num(0), Num(1)}]

Abs(x) == IF x < 0 THEN -x ELSE x

RECURSIVE Sum(_, _)
Sum(f, S) ==
  IF S = {} THEN 0
  ELSE LET x == CHOOSE y \in S : TRUE IN f[x] + Sum(f, S \ {x})

\* "sum(abs(w) for w in weights.values() if w != 0)"
total_weight(weights) == Sum([f \in Fields |-> Abs(weights[f])], Fields)

Min(S) == CHOOSE x \in S : \A y \in S : x <= y
Max(S) == CHOOSE x \in S : \A y \in S : x >= y

NoInfo == [known |-> FALSE, min_v |-> 0, max_v |-> 0]

\* rank_properties: the (min, max) of each weighted field, taken over the
\* values that are numbers, and over what float() converts only when no
\* value is a number
normalization_info(props) ==
  [field \in Fields |->
     LET numbers == { props[k][field].v : k \in
                        { j \in DOMAIN props : props[j][field].kind = "num" } }
         converted == { props[k][field].v : k \in
                          { j \in DOMAIN props : props[j][field].kind = "str" } }
         values == IF numbers # {} THEN numbers ELSE converted
     IN  IF values = {} THEN NoInfo
         ELSE [known |-> TRUE, min_v |-> Min(values), max_v |-> Max(values)]]

\* the normalized value, in halves
Normalized(value, info) ==
  IF info.min_v = info.max_v THEN 1
  ELSE (2 * (value - info.min_v)) \div (info.max_v - info.min_v)

\* the contribution of one field to the score, in halves
Contribution(property_dict, weights, info, field) ==
  IF property_dict[field].kind = "missing" \/ ~info[field].known THEN 0
  ELSE IF property_dict[field].kind = "bad" THEN 0
  ELSE Normalized(property_dict[field].v, info[field]) * weights[field]

\* score_property: score / 100 is num / (2 * total_weight); 0.0 when every
\* weight is zero
score_property(property_dict, weights, info) ==
  IF total_weight(weights) = 0 THEN 0
  ELSE Sum([f \in Fields |-> Contribution(property_dict, weights, info, f)],
           Fields)

\* sorted(..., key=score, reverse=True): descending, equal scores keep
\* their order
RECURSIVE SortScored(_)
SortScored(scored) ==
  IF scored = <<>> THEN <<>>
  ELSE LET best == CHOOSE i \in DOMAIN scored :
                     /\ \A j \in DOMAIN scored : scored[j].num <= scored[i].num
                     /\ \A j \in 1..(i - 1) : scored[j].num < scored[i].num
           others == [k \in 1..(Len(scored) - 1) |->
                        IF k < best THEN scored[k] ELSE scored[k + 1]]
       IN  <<scored[best]>> \o SortScored(others)

rank_properties(props, weights) ==
  LET info == normalization_info(props) IN
    SortScored([k \in DOMAIN props |->
                  [property |-> props[k],
                   num |-> score_property(props[k], weights, info)]])

RankArgs == [properties : SeqsUpTo(Properties, MaxProperties),
             weights : Weights]

RankInit ==
  /\ RestInit
  /\ fpc = "rank"
  /\ fargs \in RankArgs
  /\ ret = <<>>

ApplyRank ==
  /\ fpc = "rank"
  /\ ret' = rank_properties(fargs.properties, fargs.weights)
  /\ fpc' = "done"
  /\ UNCHANGED fargs
  /\ UNCHANGED outsideFn

RankSpec == RankInit /\ [][ApplyRank]_vars

(***************************************************************************)
(* CategoryDetector.extract_neighborhood                                   *)
(*                                                                         *)
(* A query is represented by what re.search gives for each pattern of the  *)
(* cascade: no match, or the words of the first group and the city of the  *)
(* second group (None for a pattern with one group).                       *)
(***************************************************************************)
\* patterns of the cascade: MaxPatterns (the code lists 12)
MaxPatterns == 3
\* words of a captured group: 1..MaxCaptured
MaxCaptured == 2

\* a stop word, a word of one character, a known Madrid neighborhood, any
\* other name
CapturedWords == {"the", "x", "Malasana", "Soho"}
cleanup_words == {"the"}
OneCharacter == {"x"}
madrid_neighborhoods == {"Malasana"}

NoMatch == [matched |-> FALSE, words |-> <<>>, city |-> NoneStr]

Matches ==
  {NoMatch} \cup
  [matched : {TRUE},
   words : SeqsUpTo(CapturedWords, MaxCaptured) \ {<<>>},
   city : {NoneStr, "London"}]

NoNeighborhood == [found |-> FALSE, words |-> <<>>, city |-> NoneStr]

\* "[w for w in words if w.lower() not in cleanup_words and len(w) > 1]"
cleaned_words(words) ==
  SelectSeq(words, LAMBDA w : w \notin cleanup_words /\ w \notin OneCharacter)

\* the result built from one match whose cleaned words are not empty
NeighborhoodOf(match) ==
  LET cleaned == cleaned_words(match.words) IN
    [found |-> TRUE, words |-> cleaned,
     city |-> IF match.city # NoneStr THEN match.city
              ELSE IF \E k \in DOMAIN cleaned : cleaned[k] \in madrid_neighborhoods
                     THEN "Madrid"
              ELSE NoneStr]

\* the loop over the patterns, from pattern k on
RECURSIVE extract_from(_, _)
extract_from(query, k) ==
  IF k > Len(query) THEN NoNeighborhood
  ELSE IF query[k].matched /\ cleaned_words(query[k].words) # <<>>
         THEN NeighborhoodOf(query[k])
  ELSE extract_from(query, k + 1)

extract_neighborhood(query) == extract_from(query, 1)

ExtractInit ==
  /\ RestInit
  /\ fpc = "extract_neighborhood"
  /\ fargs \in [1..MaxPatterns -> Matches]
  /\ ret = <<>>

ApplyExtractNeighborhood ==
  /\ fpc = "extract_neighborhood"
  /\ ret' = extract_neighborhood(fargs)
  /\ fpc' = "done"
  /\ UNCHANGED fargs
  /\ UNCHANGED outsideFn

ExtractSpec == ExtractInit /\ [][ApplyExtractNeighborhood]_vars

(***************************************************************************)
(* Result files: ResultSaver, the file search_neighborhood writes and      *)
(* MasterEnrichment                                                        *)
(***************************************************************************)
\* a neighborhood name as its words and separators
NeighborhoodNames == { <<"Malasana", ",", " ", "Madrid">>,
                       <<"Chamartin", ",", " ", "Madrid">>,
                       <<"Malasana">> }

\* str.lower on one word or separator
Lower(token) ==
  CASE token = "Malasana" -> "malasana"
    [] token = "Chamartin" -> "chamartin"
    [] token = "Madrid" -> "madrid"
    [] OTHER -> token

RECURSIVE ReplaceToken(_, _, _)
\* str.replace(old, new) on the separators of a name; new = <<>> removes
ReplaceToken(name, old, new) ==
  IF name = <<>> THEN <<>>
  ELSE (IF Head(name) = old THEN new ELSE <<Head(name)>>)
         \o ReplaceToken(Tail(name), old, new)

LowerName(name) == [ i \in DOMAIN name |-> Lower(name[i]) ]

\* ResultSaver._generate_filename: the normalized name that starts the
\* file name
saver_normalized(name) ==
  ReplaceToken(ReplaceToken(ReplaceToken(LowerName(name),
               " ", <<"_">>), ",", <<>>), "-", <<"_">>)

RECURSIVE CollapseUnderscores(_)
\* while "__" in normalized: normalized = normalized.replace("__", "_")
CollapseUnderscores(name) ==
  IF Len(name) < 2 THEN name
  ELSE IF name[1] = "_" /\ name[2] = "_" THEN CollapseUnderscores(Tail(name))
  ELSE <<Head(name)>> \o CollapseUnderscores(Tail(name))

RECURSIVE StripUnderscores(_)
\* str.strip("_")
StripUnderscores(name) ==
  IF name = <<>> THEN <<>>
  ELSE IF Head(name) = "_" THEN StripUnderscores(Tail(name))
  ELSE IF name[Len(name)] = "_"
       THEN StripUnderscores(SubSeq(name, 1, Len(name) - 1))
  ELSE name

\* MasterEnrichment._normalize_neighborhood
_normalize_neighborhood(name) ==
  StripUnderscores(CollapseUnderscores(
    ReplaceToken(ReplaceToken(ReplaceToken(LowerName(name),
                 ",", <<>>), " ", <<"_">>), "-", <<"_">>)))

\* the file name _generate_filename builds, without its timestamp and suffix
FileName(name, search_type) == saver_normalized(name) \o <<"_", search_type>>

\* ResultSaver.save_search_result: the directory after the call; the data
\* gains the key search_type
save_search_result(files, data, name, search_type) ==
  Append(files, [filename |-> FileName(name, search_type),
                 data |-> data @@ [search_type |-> search_type]])

\* the response search_neighborhood saves: every category has an envelope
\* under the key all_categories_results
ComprehensiveResponse(name, priority, totals) ==
  [neighborhood |-> name,
   priority_category |-> priority,
   all_categories_results |->
     [ c \in CategorySet |-> [total_results |-> totals[c]] ],
   categories_with_results |->
     Cardinality({ c \in CategorySet : totals[c] > 0 })]

\* the dict test_result_saver saves; it passes no neighborhood and no
\* search type
TestResult ==
  [neighborhood |-> <<"Chamartin", ",", " ", "Madrid">>,
   priority_category |-> "crime_rate",
   instant_results |-> [ c \in {"crime_rate"} |-> [total_results |-> 1] ]]

IsPrefix(s, t) == Len(s) <= Len(t) /\ SubSeq(t, 1, Len(s)) = s

\* neighborhood_lower.replace(',', '').split()
neighborhood_parts(name) ==
  SelectSeq(LowerName(name), LAMBDA token : token \notin {",", " "})

\* one file name against the glob and the fuzzy match of
\* find_neighborhood_files
MatchesNeighborhood(filename, name) ==
  LET parts == neighborhood_parts(name)
      exact == IsPrefix(_normalize_neighborhood(name) \o <<"_">>, filename)
      fuzzy == /\ "complete_enrichment" \notin Range(filename)
               /\ Len(parts) >= 1
               /\ Range(parts) \subseteq Range(filename)
  IN  /\ exact \/ fuzzy
      /\ "complete_enrichment" \notin Range(filename)
      /\ "master_enrichment" \notin Range(filename)

\* MasterEnrichment.find_neighborhood_files: the matching files, oldest first
find_neighborhood_files(files, name) ==
  SelectSeq(files, LAMBDA file : MatchesNeighborhood(file.filename, name))

NoCategories == [ c \in {} |-> <<>> ]

RECURSIVE CollectCategories(_, _)
\* the file loop of load_individual_results
CollectCategories(files, categories_data) ==
  IF files = <<>> THEN categories_data
  ELSE
    LET data == Head(files).data
        priority == data.priority_category
        found == /\ "priority_category" \in DOMAIN data
                 /\ "instant_results" \in DOMAIN data
                 /\ priority \in DOMAIN data.instant_results
        entry == data.instant_results[priority]
                   @@ [source_file |-> Head(files).filename]
        next_data ==
          IF found
          THEN [ c \in DOMAIN categories_data \cup {priority} |->
                   IF c = priority THEN entry ELSE categories_data[c] ]
          ELSE categories_data
    IN  CollectCategories(Tail(files), next_data)

\* MasterEnrichment.load_individual_results
load_individual_results(files, name) ==
  LET found == find_neighborhood_files(files, name)
  IN  [categories_data |-> CollectCategories(found, NoCategories),
       total_files |-> Len(found)]

NoPath == <<>>

\* MasterEnrichment.create_master_enrichment(neighborhood, force_update =
\* True): what it returns and the directory it leaves
create_master_enrichment(files, name) ==
  LET loaded == load_individual_results(files, name)
      master ==
        [neighborhood |-> name,
         available_categories |-> DOMAIN loaded.categories_data,
         missing_categories |-> CategorySet \ DOMAIN loaded.categories_data,
         category_results |-> loaded.categories_data]
  IN  IF loaded.categories_data = NoCategories
      THEN [saved_path |-> NoPath, files |-> files,
            categories_data |-> loaded.categories_data]
      ELSE [saved_path |-> FileName(name, "complete_enrichment"),
            files |-> save_search_result(files, master, name,
                                         "complete_enrichment"),
            categories_data |-> loaded.categories_data]

\* what one run hands over: the neighborhood, priority category and result
\* counts of search_neighborhood, and the neighborhood the master is asked for
MasterArgs ==
  [name : NeighborhoodNames,
   priority : CategorySet,
   totals : [CategorySet -> 0 .. MaxTotal],
   asked : NeighborhoodNames]

MasterInit ==
  /\ RestInit
  /\ fpc = "write"
  /\ fargs \in MasterArgs
  /\ ret = [files |-> <<>>]

\* search_neighborhood saves its response
SaveComprehensive ==
  /\ fpc = "write"
  /\ ret' = [files |->
       save_search_result(ret.files,
         ComprehensiveResponse(fargs.name, fargs.priority, fargs.totals),
         fargs.name, "comprehensive_neighborhood_search")]
  /\ fpc' = "create_master"
  /\ UNCHANGED fargs
  /\ UNCHANGED outsideFn

\* test_result_saver saves its dict
SaveTestResult ==
  /\ fpc = "write"
  /\ ret' = [files |->
       save_search_result(ret.files, TestResult, TestResult.neighborhood,
                          "hybrid_search")]
  /\ fpc' = "create_master"
  /\ UNCHANGED fargs
  /\ UNCHANGED outsideFn

CreateMaster ==
  /\ fpc = "create_master"
  /\ ret' = create_master_enrichment(ret.files, fargs.asked)
  /\ fpc' = "done"
  /\ UNCHANGED fargs
  /\ UNCHANGED outsideFn

MasterNext == SaveComprehensive \/ SaveTestResult \/ CreateMaster

MasterSpec == MasterInit /\ [][MasterNext]_vars

(***************************************************************************)
(* Properties of SearxNGEngine (checked under Spec)                        *)
(***************************************************************************)
\* the attempts of the current call, in order
Attempts == SelectSeq(trace, LAMBDA e : e.ev = "attempt")

\* the outcomes after which search marks the instance failed: "failed"
\* stands for a JSON decode error, a status other than 200 and 429, a
\* timeout or a request error (last_error tells them apart)
FailureOutcomes == {"failed", "rate_limited"}

\* this step is an attempt on instance i with outcome o
AttemptStep(i, o) ==
  /\ Len(trace') > Len(trace)
  /\ trace'[Len(trace) + 1] = AttemptEv(i, o)

\* this step is a probe of instance i that did not answer 200
FailedProbeStep(i) ==
  probed[i] = "none" /\ probed'[i] = "failed"

\* C1: every failure counter is >= 0 in every state and after every step; a
\* step that marks a success of instance i leaves its counter at
\* max(0, f - 1), never above f; a step that marks a failure of i (a failed
\* probe or a failed search attempt) raises its counter by exactly one.
C1_FailureCounter ==
  [][ /\ \A i \in Instances : failures[i] >= 0 /\ failures'[i] >= 0
      /\ \A i \in Instances :
           AttemptStep(i, "success") =>
             /\ failures'[i] = max(0, failures[i] - 1)
             /\ failures'[i] <= failures[i]
      /\ \A i \in Instances :
           (FailedProbeStep(i) \/ \E o \in FailureOutcomes : AttemptStep(i, o))
             => failures'[i] = failures[i] + 1 ]_vars

\* a call in which a success met a counter of 0 (the floor) after another
\* instance had its failure marked
C1_Witness ==
  /\ results.kind = "ok"
  /\ stats0.failures[results.instance_used] = 0
  /\ failures[results.instance_used] = 0
  /\ \E j \in Instances : stats0.failures[j] = 1 /\ failures[j] = 2

\* C2: when a call returns a success envelope and the k attempts before the
\* successful one all failed (non-200 status, rate limit, timeout, request
\* error or JSON decode error), the envelope names instance k+1 of the trial
\* order and has sources, the counter of that instance is unchanged or one
\* lower, and the counters of the first k instances are one higher than at
\* the start of the call.
C2_FailoverToFirstSuccess ==
  (/\ pc = "returned" /\ results.kind = "ok"
   /\ \A p \in 1 .. (Len(Attempts) - 1) : Attempts[p].out \in FailureOutcomes)
  =>
  LET k == Len(Attempts) - 1
      used == available_instances[k + 1]
  IN  /\ \A p \in 1 .. (k + 1) : Attempts[p].inst = available_instances[p]
      /\ Attempts[k + 1].out = "success"
      /\ results.instance_used = used
      /\ results.sources # <<>>
      /\ failures[used] \in {stats0.failures[used], stats0.failures[used] - 1}
      /\ \A p \in 1 .. k :
           failures[available_instances[p]] =
             stats0.failures[available_instances[p]] + 1

\* the first two instances failed and the third one succeeded
C2_Witness ==
  /\ pc = "returned" /\ results.kind = "ok"
  /\ Len(Attempts) = 3
  /\ Attempts[1].out = "failed" /\ Attempts[2].out = "rate_limited"
  /\ results.instance_used = available_instances[3]

\* the call has ended without a qualifying success
EndedWithoutSuccess ==
  /\ pc \in {"returned", "raised"}
  /\ \A p \in DOMAIN Attempts : Attempts[p].out # "success"

\* C3: a call in which no attempted instance yields a qualifying success
\* returns normally, with total_results = 0, sources = [] and, when an error
\* was recorded during the call, that last error string in its error field.
C3_ExhaustionReturnsEnvelope ==
  EndedWithoutSuccess =>
    /\ pc = "returned"
    /\ results.kind = "error"
    /\ results.total_results = 0
    /\ results.sources = <<>>
    /\ last_error # NoError => results.error = last_error

\* C4: a success ends the call at once: the successful attempt is the last
\* event of the call, only the first instances of the trial order up to the
\* successful one were contacted, and the stats of every instance after it
\* are those of the start of the call.
C4_SuccessShortCircuits ==
  results.kind = "ok" =>
    /\ pc = "returned"
    /\ trace[Len(trace)] = AttemptEv(results.instance_used, "success")
    /\ Len(Attempts) = idx
    /\ \A p \in 1 .. idx : Attempts[p].inst = available_instances[p]
    /\ \A p \in (idx + 1) .. Len(available_instances) :
         LET j == available_instances[p] IN
         /\ failures[j] = stats0.failures[j]
         /\ last_success[j] = stats0.last_success[j]
         /\ avg_response_time[j] = stats0.avg_response_time[j]

\* a success on the second instance while a third one, with a failure on
\* record, is never contacted
C4_Witness ==
  /\ results.kind = "ok" /\ idx = 2
  /\ failures[available_instances[3]] = 1

Responders == { i \in Instances : probed[i] = "ok" }

\* C6: once initialization is over the primary is set; it is a probed
\* instance that answered 200 with the lowest probe response time of all
\* that did, or the first configured instance when none did; only the
\* first ProbeCount instances are probed, and right after initialization
\* the failure count is one for each failed probe and zero otherwise.
C6_PrimarySelection ==
  pc \notin {"init", "probing"} =>
    /\ primary_instance \in Instances
    /\ Responders # {} =>
         /\ primary_instance \in Responders
         /\ \A j \in Responders :
              probe_time[primary_instance] <= probe_time[j]
    /\ Responders = {} => primary_instance = 1
    /\ \A i \in Instances : probed[i] # "none" => i \in ProbedInstances
    /\ pc = "idle" =>
         \A i \in Instances :
           failures[i] = IF probed[i] = "failed"
                           THEN 1 ELSE 0

\* the second instance is primary: it answered faster than the first
C6_Witness ==
  /\ pc = "idle"
  /\ primary_instance = 2
  /\ probed[1] = "ok" /\ probe_time[1] > probe_time[2]

\* C7: an attempt that gets HTTP 200 and no source after filtering changes
\* no instance stats and no recorded error, and the call goes on with the
\* next position of the trial order.
C7_EmptyResultNotPunished ==
  [][ \A i \in Instances :
        AttemptStep(i, "no_results") =>
          /\ failures' = failures
          /\ last_success' = last_success
          /\ avg_response_time' = avg_response_time
          /\ last_error' = last_error
          /\ pc' = "searching"
          /\ idx' = idx + 1
          /\ available_instances' = available_instances ]_vars

\* an empty answer of the first instance followed by an attempt on the second
C7_Witness ==
  /\ Len(Attempts) >= 2
  /\ Attempts[1].out = "no_results"
  /\ Attempts[2].inst = available_instances[2]
  /\ failures[Attempts[1].inst] = stats0.failures[Attempts[1].inst]

\* C8: an attempt answered with HTTP 429 marks the instance failed and is
\* directly followed by a sleep of RateLimitCooldown, which is longer than
\* InstanceDelay; every attempt but the first is directly preceded by a
\* sleep of InstanceDelay, every such sleep is followed by an attempt or
\* is where the call stands, and no such sleep follows the attempt on the
\* last instance of the trial order.
C8_CooldownAndDelay ==
  /\ RateLimitCooldown > InstanceDelay
  /\ \A p \in DOMAIN trace :
       /\ (trace[p].ev = "attempt" /\ trace[p].out = "rate_limited") =>
            /\ p + 1 \in DOMAIN trace
            /\ trace[p + 1] = SleepEv(RateLimitCooldown)
            /\ failures[trace[p].inst] = stats0.failures[trace[p].inst] + 1
       /\ (trace[p].ev = "attempt" /\ p > 1) =>
            trace[p - 1] = SleepEv(InstanceDelay)
       /\ (trace[p].ev = "attempt"
             /\ trace[p].out \notin {"success", "bad_payload"}
             /\ trace[p].inst # available_instances[Len(available_instances)]) =>
            \E q \in {p + 1, p + 2} :
              q \in DOMAIN trace /\ trace[q] = SleepEv(InstanceDelay)
       /\ trace[p] = SleepEv(InstanceDelay) =>
            /\ p > 1
            /\ trace[p - 1].ev = "attempt" \/ trace[p - 1] = SleepEv(RateLimitCooldown)
            /\ IF p = Len(trace)
                 THEN pc = "searching" /\ idx <= Len(available_instances)
                 ELSE trace[p + 1].ev = "attempt"
  /\ (pc = "searching" /\ idx > Len(available_instances)) =>
       trace[Len(trace)] # SleepEv(InstanceDelay)

\* a rate-limited first instance, and a call that tried every instance
C8_Witness ==
  /\ pc = "returned" /\ results.kind = "error"
  /\ Len(Attempts) = NumInstances
  /\ Attempts[1].out = "rate_limited"
  /\ Attempts[NumInstances].out = "rate_limited"

(***************************************************************************)
(* Properties of search_neighborhood (checked under CoordSpec)             *)
(***************************************************************************)
\* C9: a finished run has searched all five configured categories: the
\* keys of all_categories_results are exactly the keys of SEARCH_CATEGORIES.
C9_AllCategoriesSearched ==
  cpc = "done" =>
    /\ Range(Keys(all_results)) = CategorySet
    /\ Len(all_results) = Len(Categories)

\* the events of the run that are calls / returns of category searches
CallsOf(log) == SelectSeq(log, LAMBDA e : e.ev = "call")
ReturnsOf(log) == SelectSeq(log, LAMBDA e : e.ev = "return")

\* C10: category searches run one at a time in the scheduled order: each
\* call is directly followed by its own return, the calls are the scheduled
\* categories in order, every call but the first starts CategoryDelay or
\* more after the previous return and directly after a sleep of
\* CategoryDelay, the results are stored in the order of the returns, and a
\* finished run does not end with a sleep.
C10_SequentialCategories ==
  LET calls_ == CallsOf(clog)
      rets == ReturnsOf(clog)
  IN  /\ \A p \in DOMAIN calls_ : calls_[p].cat = all_categories[p]
      /\ \A p \in DOMAIN rets : rets[p].cat = calls_[p].cat
      /\ Len(rets) \in {Len(calls_), Len(calls_) - 1}
      /\ \A p \in DOMAIN clog :
           /\ (clog[p].ev = "call" /\ p < Len(clog)) =>
                clog[p + 1] = ReturnEv(clog[p].cat, clog[p + 1].at)
           /\ (clog[p].ev = "call" /\ p > 1) =>
                /\ clog[p - 1].ev = "sleep" /\ clog[p - 1].d = CategoryDelay
                /\ clog[p - 2].ev = "return"
                /\ clog[p].at >= clog[p - 2].at + CategoryDelay
           /\ (clog[p].ev = "return") => p > 1 /\ clog[p - 1].ev = "call"
      /\ Keys(all_results) = [p \in DOMAIN rets |-> rets[p].cat]
      /\ cpc = "done" =>
           /\ Len(calls_) = Len(all_categories)
           /\ clog[Len(clog)].ev = "return"

\* a finished run over four categories with three delays
C10_Witness ==
  /\ cpc = "done"
  /\ Len(all_categories) = 4
  /\ Len(SelectSeq(clog, LAMBDA e : e.ev = "sleep")) = 3

(***************************************************************************)
(* Properties of search_single_category and DuckDuckGoEngine (checked      *)
(* under DdgSpec)                                                          *)
(***************************************************************************)
\* C11: when search_single_category meets a category that is not a key of
\* SEARCH_CATEGORIES, the KeyError leaves the function as an exception: the
\* call does not end with an envelope returned for that category.
C11_MissingKeyPropagates ==
  single_result.category \in DdgCategories \ CategorySet
    => single_result.result.kind = "raised"

\* the sources of an envelope returned by SearxNGEngine.search for a
\* non-empty neighborhood have a positive relevance score
SearxSourcesRelevant ==
  (results.kind = "ok" /\ neighborhood)
    => \A k \in DOMAIN results.sources : results.sources[k] > 0

\* the sources of an envelope returned by DuckDuckGoEngine.search for a
\* non-empty neighborhood have a positive relevance score
DdgSourcesRelevant ==
  (dpc = "search_ended" /\ search_result.kind = "envelope" /\ dneighborhood # "")
    => \A k \in DOMAIN search_result.sources :
         SourceRelevance(search_result.sources[k], dneighborhood) > 0

\* C12: both providers filter for relevance before they return: every source
\* of an envelope returned by SearxNGEngine.search or DuckDuckGoEngine.search
\* for a non-empty neighborhood has a strictly positive relevance score.
C12_RelevanceFiltering == SearxSourcesRelevant /\ DdgSourcesRelevant

(***************************************************************************)
(* Properties of the relevance filter (checked under FilterSpec)           *)
(***************************************************************************)
Hit(b) == IF b THEN 1 ELSE 0

\* what the location terms add to the score of a source: per term +3 in the
\* title, +2 in the snippet, +1 in the url
RECURSIVE Gain(_, _)
Gain(source, terms) ==
  IF terms = {} THEN 0
  ELSE LET t == CHOOSE y \in terms : TRUE
       IN  3 * Hit(Contains(source.title, t))
             + 2 * Hit(Contains(source.snippet, t))
             + Hit(Contains(source.url, t))
             + Gain(source, terms \ {t})

\* what the irrelevant terms take from it: 5 per term that is in the title
\* or in the snippet
RECURSIVE Loss(_, _)
Loss(source, terms) ==
  IF terms = {} THEN 0
  ELSE LET t == CHOOSE y \in terms : TRUE
       IN  5 * Hit(t \in source.title.irr \cup source.snippet.irr)
             + Loss(source, terms \ {t})

\* the score the filter is to give
ExpectedScore(source, terms) ==
  Gain(source, terms) - Loss(source, IrrelevantTerms)

\* the number of positions of a sequence that hold x
CountIn(seq, x) == Cardinality({k \in DOMAIN seq : seq[k] = x})

\* C13: for a non-empty neighborhood the filter keeps exactly the sources
\* whose score is strictly positive (each as often as it was given), records
\* that score, returns them in descending score order, and search cuts the
\* list to the requested count; a kept source matches a location term.
C13_FilterKeepsPositiveSorted ==
  (fpc = "done" /\ fargs.neighborhood # "") =>
    LET terms == location_terms(fargs.neighborhood)
        given == ret.raw_sources
        kept == ret.filtered
    IN  /\ \A k \in DOMAIN kept :
             /\ kept[k].relevance_score = ExpectedScore(kept[k].source, terms)
             /\ kept[k].relevance_score > 0
             /\ \E t \in terms : \/ Contains(kept[k].source.title, t)
                                 \/ Contains(kept[k].source.snippet, t)
                                 \/ Contains(kept[k].source.url, t)
        /\ \A x \in Range(given) :
             CountIn([k \in DOMAIN kept |-> kept[k].source], x)
               = IF ExpectedScore(x, terms) > 0 THEN CountIn(given, x) ELSE 0
        /\ \A k \in DOMAIN kept : kept[k].source \in Range(given)
        /\ \A j, k \in DOMAIN kept :
             j < k => kept[j].relevance_score >= kept[k].relevance_score
        /\ Len(ret.sources) = min(fargs.max_results, Len(kept))
        /\ \A k \in DOMAIN ret.sources : ret.sources[k] = kept[k]

\* two sources were given with the lower score first and a penalised one
\* among them; both were kept, in the opposite order, and one was returned
C13_Witness ==
  /\ fpc = "done"
  /\ fargs.neighborhood = "Malasana, Madrid"
  /\ Len(ret.raw_sources) = 2
  /\ Len(ret.filtered) = 2
  /\ ret.filtered[1].source = ret.raw_sources[2]
  /\ ret.filtered[1].relevance_score > ret.filtered[2].relevance_score
  /\ ret.filtered[2].source.title.irr # {}
  /\ Len(ret.sources) = 1

RequestsSpaced(times) ==
  \A k \in 1 .. (Len(times) - 1) : times[k + 1] - times[k] >= MinDelay

\* C15: consecutive search calls on one engine issue their backend requests
\* at least the minimum delay apart; before a request the engine sleeps for
\* what is missing to the minimum delay since the recorded last call time,
\* not at all when nothing is missing, and then records the time.
C15_MinimumDelay ==
  [][ /\ RequestsSpaced(request_times')
      /\ (dpc = "rate_limiting" /\ dpc' = "request") =>
           /\ dnow' - dnow = max(MinDelay - (dnow - last_search_time), 0)
           /\ last_search_time' = dnow'
      /\ request_times' # request_times =>
           request_times'[Len(request_times')] = last_search_time ]_vars

\* the second request of an engine followed a sleep and came exactly the
\* minimum delay after the first
C15_Witness ==
  /\ Len(request_times) = 2
  /\ slept > 0
  /\ request_times[2] - request_times[1] = MinDelay

\* C16: whatever raises inside DuckDuckGoEngine.search (the rate limiting,
\* the backend request, a later stage), search does not raise: it ends by
\* returning an envelope, and the envelope of a failed search has error set,
\* no sources and total_results = 0.
C16_SearchNeverRaises ==
  dpc = "search_ended" =>
    /\ search_result.kind = "envelope"
    /\ search_result.error =>
         search_result.sources = <<>> /\ search_result.total_results = 0

(***************************************************************************)
(* Properties of the metric validation (checked under MetricSpec)          *)
(***************************************************************************)
\* C17: a metric is in extracted_metrics only if it was a raw metric that
\* passed the validation: the snippet contains no exclusionary phrase, and a
\* sentence that states the metric's value mentions the neighborhood (or,
\* for a price or growth metric, is a real-estate sentence of a snippet that
\* mentions the neighborhood).
C17_OnlyValidatedMetrics ==
  fpc = "done" =>
    \A m \in ret.extracted_metrics :
      /\ m \in fargs.raw_metrics
      /\ ~fargs.snippet.exclusionary
      /\ \E k \in DOMAIN fargs.snippet.sentences :
           LET sentence == fargs.snippet.sentences[k] IN
             /\ sentence.occurrence
             /\ \/ sentence.neighborhood
                \/ /\ m \in PermissiveMetrics
                   /\ sentence.real_estate
                   /\ \E j \in DOMAIN fargs.snippet.sentences :
                        fargs.snippet.sentences[j].neighborhood

(***************************************************************************)
(* Properties of ConfidenceScorer (checked under ConfidenceSpec)           *)
(***************************************************************************)
\* C18: for any source the total is in 0..100, and when no exception was
\* caught the authority is in 0..40, the content quality in 0..40 with its
\* four sub-scores in 0..10 each, the technical quality in 0..10 and the
\* recency in 0..10.
C18_ScoreRanges ==
  fpc = "done" =>
    /\ ret.confidence_score \in 0..100
    /\ ~ret.error =>
         /\ ret.score_breakdown.domain_authority \in 0..40
         /\ ret.score_breakdown.content_quality \in 0..40
         /\ ret.score_breakdown.technical_quality \in 0..10
         /\ ret.score_breakdown.recency_estimate \in 0..10
         /\ ret.quality_metrics.neighborhood_specificity \in 0..10
         /\ ret.quality_metrics.query_relevance \in 0..10
         /\ ret.quality_metrics.content_depth \in 0..10
         /\ ret.quality_metrics.data_richness \in 0..10
         /\ ret.score_breakdown.content_quality =
                ret.quality_metrics.neighborhood_specificity
              + ret.quality_metrics.query_relevance
              + ret.quality_metrics.content_depth
              + ret.quality_metrics.data_richness

\* a source that matches every data pattern and every neighborhood term was
\* scored: the raw sums 12 and 16 were capped and the total is 100
C18_Witness ==
  /\ fpc = "done"
  /\ ~ret.error
  /\ fargs.data_hits = NumDataPatterns
  /\ fargs.neighborhood_hits = NumNeighborhoodTerms
  /\ ret.quality_metrics.data_richness = 10
  /\ ret.confidence_score = 100

(***************************************************************************)
(* Properties of CategoryDetector.detect_categories (checked under         *)
(* DetectSpec)                                                             *)
(***************************************************************************)
\* one point per matched keyword, three per matched pattern
C19_Score(c) == fargs.kw[c] + 3 * fargs.pat[c]

\* C19: the priority category has the highest score, and every category
\* declared before it has a strictly lower score (general_info when nothing
\* matches); so a query that matches a pattern of X and nothing of any other
\* category has priority X.
C19_PriorityIsFirstMaximum ==
  fpc = "done" =>
    /\ (\E c \in CategorySet : C19_Score(c) > 0) =>
         /\ \A c \in CategorySet : C19_Score(c) <= C19_Score(ret[1])
         /\ \A c \in CategorySet :
              IndexOf(Categories, c) < IndexOf(Categories, ret[1])
                => C19_Score(c) < C19_Score(ret[1])
    /\ (\A c \in CategorySet : C19_Score(c) = 0) => ret[1] = "general_info"
    /\ \A X \in CategorySet :
         (/\ fargs.pat[X] >= 1
          /\ \A c \in CategorySet \ {X} : fargs.kw[c] = 0 /\ fargs.pat[c] = 0)
           => ret[1] = X

\* two categories share the top score, both through a pattern, a third one
\* matched a keyword only, and of the two the one declared first is the
\* priority
C19_Witness ==
  /\ fpc = "done"
  /\ \E c, e \in CategorySet :
       /\ IndexOf(Categories, c) < IndexOf(Categories, e)
       /\ C19_Score(c) = C19_Score(e)
       /\ fargs.pat[c] >= 1 /\ fargs.pat[e] >= 1
       /\ \E x \in CategorySet : fargs.kw[x] >= 1 /\ fargs.pat[x] = 0
       /\ \A x \in CategorySet : C19_Score(x) <= C19_Score(c)
       /\ ret[1] = c

(***************************************************************************)
(* Properties of ContentExtractor.enhance_search_results (checked under    *)
(* EnhanceSpec)                                                            *)
(***************************************************************************)
\* the extraction of the k-th source gave content: its url is neither
\* skipped nor deny-listed, and fetching and parsing gave a non-empty text
C20_Extracted(k) ==
  /\ fargs.heap[fargs.results.sources[k]].url
       \notin {"", "No URL", "https://www.tripadvisor.com/x"}
  /\ fargs.pages[k] \notin {"raises", "nothing", ""}

\* C20: enhance_search_results returns an envelope with one source per input
\* source, in order; a source whose extraction gave content has the content
\* as its snippet and content_enhanced true, any other source keeps its
\* snippet and has content_enhanced false; the other fields are those of the
\* input source, and the input source dicts and the input source list are as
\* they were before the call.
C20_EnhanceKeepsOrReplaces ==
  fpc = "done" =>
    LET before == fargs.results.sources
        after == ret.results.sources
    IN  /\ Len(after) = Len(before)
        /\ SubSeq(ret.heap, 1, Len(fargs.heap)) = fargs.heap
        /\ \A k \in DOMAIN before :
             LET source == fargs.heap[before[k]]
                 enhanced == ret.heap[after[k]]
             IN  /\ after[k] \notin DOMAIN fargs.heap
                 /\ DOMAIN enhanced = DOMAIN source \cup {"content_enhanced"}
                 /\ \A f \in DOMAIN source \ {"snippet"} :
                      enhanced[f] = source[f]
                 /\ enhanced.content_enhanced = C20_Extracted(k)
                 /\ enhanced.snippet = IF C20_Extracted(k) THEN fargs.pages[k]
                                       ELSE source.snippet

\* two sources were enhanced: the page of one raised and it keeps its
\* snippet, the other got the extracted content
C20_Witness ==
  /\ fpc = "done"
  /\ Len(fargs.results.sources) = 2
  /\ fargs.pages[1] = "raises" /\ ~C20_Extracted(1)
  /\ fargs.heap[1].url = "https://example.org/x"
  /\ ret.heap[ret.results.sources[1]].snippet = "original snippet"
  /\ ~ret.heap[ret.results.sources[1]].content_enhanced
  /\ C20_Extracted(2)
  /\ ret.heap[ret.results.sources[2]].snippet = "extracted content"
  /\ ret.heap[ret.results.sources[2]].content_enhanced

(***************************************************************************)
(* Properties of the key facts and the data quality (checked under         *)
(* FactSpec)                                                               *)
(***************************************************************************)
\* C21: no fact appears more than once in the key_facts returned for a
\* snippet.
C21_KeyFactsDeduplicated ==
  fpc = "done" =>
    \A i, j \in DOMAIN ret.key_facts :
      i # j => ret.key_facts[i] # ret.key_facts[j]

C22_Rank(tier) == CASE tier = "high" -> 2 [] tier = "medium" -> 1 [] OTHER -> 0

\* C22: the tier is high with at least two validated metrics and three key
\* facts, medium with otherwise at least one metric and two facts, and low
\* otherwise; more metrics and more facts never give a lower tier.
C22_QualityTiers ==
  fpc = "done" =>
    LET m == fargs.metric_count
        f == Len(ret.key_facts)
    IN  /\ ret.data_quality = "high" <=> (m >= 2 /\ f >= 3)
        /\ ret.data_quality = "medium"
             <=> (~(m >= 2 /\ f >= 3) /\ m >= 1 /\ f >= 2)
        /\ ret.data_quality = "low" <=> ~(m >= 1 /\ f >= 2)
        /\ \A mm \in m..(MaxMetricCount + 1), ff \in f..(MaxFacts + 1) :
             C22_Rank(data_quality(mm, ff)) >= C22_Rank(ret.data_quality)

\* a snippet with two metrics and two facts was assessed as medium, where a
\* third fact would have made it high
C22_Witness ==
  /\ fpc = "done"
  /\ fargs.metric_count = 2
  /\ Len(ret.key_facts) = 2
  /\ ret.data_quality = "medium"
  /\ data_quality(2, 3) = "high"

(***************************************************************************)
(* Properties of the scoring engine (checked under RankSpec)               *)
(***************************************************************************)
\* the sum of the negative and the sum of the positive weights
C23_Negative ==
  Sum([f \in Fields |-> IF fargs.weights[f] < 0 THEN fargs.weights[f] ELSE 0],
      Fields)
C23_Positive ==
  Sum([f \in Fields |-> IF fargs.weights[f] > 0 THEN fargs.weights[f] ELSE 0],
      Fields)

\* C23: rank_properties returns one entry per property, in non-increasing
\* score order, and every score lies between 100 * (sum of the negative
\* weights) / (sum of |weights|) and 100 * (sum of the positive weights) /
\* (sum of |weights|).
C23_ScoresWithinBounds ==
  fpc = "done" =>
    /\ Len(ret) = Len(fargs.properties)
    /\ \A k \in 1..(Len(ret) - 1) : ret[k].num >= ret[k + 1].num
    /\ \A k \in DOMAIN ret :
         /\ 2 * C23_Negative <= ret[k].num
         /\ ret[k].num <= 2 * C23_Positive

(***************************************************************************)
(* Properties of extract_neighborhood (checked under ExtractSpec)          *)
(***************************************************************************)
\* the patterns that match the query
C24_Matching == { k \in DOMAIN fargs : fargs[k].matched }

\* C24: the result comes from the first pattern that matches: its captured
\* words without the stop words, with the captured city when there is one;
\* the result is None when no pattern matches or when these words are empty.
C24_FirstMatchDecides ==
  fpc = "done" =>
    IF C24_Matching = {} THEN ~ret.found
    ELSE LET first == fargs[CHOOSE k \in C24_Matching :
                              \A j \in C24_Matching : k <= j]
             candidate == SelectSeq(first.words,
                                    LAMBDA w : w \notin {"the", "x"})
         IN  IF candidate = <<>> THEN ~ret.found
             ELSE /\ ret.found
                  /\ ret.words = candidate
                  /\ first.city # NoneStr => ret.city = first.city

(***************************************************************************)
(* Further properties of ConfidenceScorer (checked under ConfidenceSpec)   *)
(***************************************************************************)
\* C25: the recency score is 10 when the content contains this year, 8 when
\* it contains last year and not this year, 6 when it contains neither but a
\* recent/updated/latest token, and 5 when it contains none of them.
C25_RecencyScore ==
  (fpc = "done" /\ ~ret.error) =>
    ret.score_breakdown.recency_estimate =
      IF "current" \in fargs.years THEN 10
      ELSE IF "previous" \in fargs.years THEN 8
      ELSE IF fargs.recent_indicator THEN 6
      ELSE 5

\* C26: the technical quality is 5 for an enhanced source, plus 3 for a
\* snippet over the minimum length, plus 2 for a url that is present, not
\* empty and not the placeholder.
C26_TechnicalQuality ==
  (fpc = "done" /\ ~ret.error) =>
    ret.score_breakdown.technical_quality =
        (IF fargs.content_enhanced THEN 5 ELSE 0)
      + (IF fargs.long_snippet THEN 3 ELSE 0)
      + (IF fargs.url \notin {"missing", NoneStr, "", "No URL"} THEN 2 ELSE 0)

\* C28: in every returned value the level is the one the thresholds give for
\* the score (80 very_high, 65 high, 50 medium, 35 low, below very_low), and
\* rag_weight is the score divided by 100.
C28_LevelMatchesScore ==
  fpc = "done" =>
    /\ ret.confidence_level =
         (CASE ret.confidence_score >= 80 -> "very_high"
            [] ret.confidence_score >= 65 -> "high"
            [] ret.confidence_score >= 50 -> "medium"
            [] ret.confidence_score >= 35 -> "low"
            [] OTHER -> "very_low")
    /\ ret.rag_weight.num * 100 = ret.confidence_score * ret.rag_weight.den

(***************************************************************************)
(* Further properties of SearxNGEngine (checked under Spec)                *)
(***************************************************************************)
\* C27: within a search call the trial order holds no instance twice, no
\* instance is attempted twice, at most NumInstances attempts are made, and
\* the call ends by returning the success envelope or the exhaustion
\* envelope.
C27_EachInstanceAtMostOnce ==
  /\ pc \in {"searching", "returned", "raised"} =>
       /\ \A i, j \in DOMAIN available_instances :
            i # j => available_instances[i] # available_instances[j]
       /\ \A i, j \in DOMAIN Attempts :
            i # j => Attempts[i].inst # Attempts[j].inst
       /\ Len(Attempts) <= NumInstances
  /\ pc \in {"returned", "raised"} =>
       /\ pc = "returned"
       /\ results.kind \in {"ok", "error"}

\* C29: once the engine is constructed the primary instance is the one its
\* initialization chose (the fastest probed instance, or the first instance
\* when no probe answered), whatever the searches did since, and every
\* search puts it first in its trial order and attempts it first.
C29_PrimaryNeverChanges ==
  pc \notin {"init", "probing"} =>
    /\ primary_instance = IF best_instance # None THEN best_instance ELSE 1
    /\ pc \in {"searching", "returned", "raised"} =>
         /\ available_instances # <<>>
         /\ available_instances[1] = primary_instance
         /\ Attempts # <<>> => Attempts[1].inst = primary_instance

\* a search attempted the primary first although the primary had failed
\* before and another instance had fewer failures
C29_Witness ==
  /\ pc = "searching"
  /\ Attempts # <<>>
  /\ Attempts[1].inst = primary_instance
  /\ stats0.failures[primary_instance] > 0
  /\ \E i \in Instances : stats0.failures[i] < stats0.failures[primary_instance]

\* C30: a file written by search_neighborhood that holds a category with
\* results is consumed by MasterEnrichment: asked for that neighborhood,
\* load_individual_results returns the category's data and
\* create_master_enrichment with force_update saves a master file that lists
\* the category.
C30_Comprehensive ==
  /\ fpc = "done"
  /\ Len(ret.files) >= 1
  /\ "all_categories_results" \in DOMAIN ret.files[1].data
  /\ MatchesNeighborhood(ret.files[1].filename, fargs.asked)

C30_MasterListsSearchResults ==
  C30_Comprehensive =>
    \A c \in CategorySet :
      ret.files[1].data.all_categories_results[c].total_results > 0 =>
        /\ c \in DOMAIN ret.categories_data
        /\ ret.saved_path # NoPath
        /\ c \in ret.files[Len(ret.files)].data.available_categories

====
